---- MODULE Spec2Model ----
(***************************************************************************)
(* Nimble agent: the request handler create_build, the build queue and     *)
(* build worker, the deploy queue and deploy worker, and the store         *)
(* (builds, deployments, apps) they share.                                 *)
(*                                                                         *)
(* Every store call is one atomic step (one SQL statement); between two    *)
(* store calls of one task the other tasks may run.  Store calls, engine   *)
(* calls and file-system calls may fail; a failed store call changes       *)
(* nothing.                                                                *)
(*                                                                         *)
(* The build worker under crates/agent/src/workers/build.rs has no store   *)
(* handle (main.rs constructs BuildWorker::new(config, db) and api.rs a    *)
(* BuildJob with a deploy flag, neither of which that file declares), so   *)
(* its loop and the order of its failure points are taken from that file   *)
(* and its store writes and the deploy hand-off from the specification.    *)
(***************************************************************************)
EXTENDS Integers, Sequences, FiniteSets, TLC

\* ---------------------------------------------------------------- bounds
\* Number of POST /builds requests the environment makes.
MaxBuilds == 2

\* ------------------------------------------------------------- constants
\* tokio::sync::mpsc::channel::<BuildJob>(100)
BUILD_QUEUE_CAPACITY == 100
\* Capacity of the deploy queue.
DEPLOY_QUEUE_CAPACITY == 100

\* Application names a nimble.yaml may carry, in the order the build worker
\* first reads them (names are interchangeable: no code inspects one).
AppNames == <<"hello", "web">>
Apps == {AppNames[i] : i \in DOMAIN AppNames}

\* Option::None for ids, container references and addresses (SQL NULL).
NoId == 0

\* ------------------------------------------------------- status tokens
BuildStatus == {"queued", "building", "success", "failed"}
DeployStatus == {"queued", "deploying", "running", "failed", "stopped"}

\* ------------------------------------------------------------- messages
BuildJob(id, deploy) == [build_id |-> id, deploy |-> deploy]
NoBuildJob == [build_id |-> NoId, deploy |-> FALSE]

\* A job that names the deployment created just before its own, whatever the
\* app's active_deployment_id was.
DeployJob_names_latest(did, bid, app, previous) ==
    [deploy_id |-> did, build_id |-> bid, app |-> app,
     previous_active_deployment |-> did - 1]
DeployJob(did, bid, app, previous) ==
    [deploy_id |-> did, build_id |-> bid, app |-> app,
     previous_active_deployment |-> previous]
NoDeployJob == DeployJob(NoId, NoId, "", NoId)

\* ---------------------------------------------------------------- rows
\* A table is a function from the primary keys of its rows to the rows.
DeploymentRecord(bid, app, status, cid, cname, address) ==
    [build_id |-> bid, app |-> app, status |-> status,
     container_id |-> cid, container_name |-> cname, address |-> address]

AppRecord(active) == [active_deployment_id |-> active]

\* ------------------------------------------------------- store (db.rs)
\* An INSERT that meets no primary-key constraint.
create_build_ok_unconstrained(tbl, id) == TRUE
\* INSERT INTO builds (id, status): fails on a primary-key collision.
create_build_ok(tbl, id) == id \notin DOMAIN tbl
db_create_build(tbl, id, status) == tbl @@ (id :> status)

\* UPDATE builds SET status, with the WHERE clause lost.
update_build_status_every_row(tbl, id, status) ==
    [b \in DOMAIN tbl |-> status]

\* UPDATE builds SET status WHERE id: touches no row when id is unknown.
update_build_status(tbl, id, status) ==
    [b \in DOMAIN tbl |-> IF b = id THEN status ELSE tbl[b]]

\* INSERT INTO deployments (id, build_id, app, image, status, address).
create_deployment_ok(tbl, id) == id \notin DOMAIN tbl

\* An INSERT that binds no build_id.
create_deployment_unlinked(tbl, id, bid, app, status, address) ==
    tbl @@ (id :> DeploymentRecord(NoId, app, status, NoId, NoId, address))

create_deployment(tbl, id, bid, app, status, address) ==
    tbl @@ (id :> DeploymentRecord(bid, app, status, NoId, NoId, address))

\* INSERT OR REPLACE INTO apps (name): an existing row is written anew.
upsert_app_replace(tbl, app) ==
    [a \in DOMAIN tbl \cup {app} |->
        IF a = app THEN AppRecord(NoId) ELSE tbl[a]]
\* INSERT INTO apps (name) ON CONFLICT(name) DO NOTHING.
upsert_app(tbl, app) ==
    IF app \in DOMAIN tbl THEN tbl ELSE tbl @@ (app :> AppRecord(NoId))

\* INSERT OR REPLACE INTO apps in place of the UPDATE: a row is written
\* whether or not the app had one.
set_active_deployment_upsert(tbl, app, did) ==
    [a \in DOMAIN tbl \cup {app} |->
        IF a = app THEN [active_deployment_id |-> did] ELSE tbl[a]]

\* UPDATE apps SET active_deployment_id WHERE name.
set_active_deployment(tbl, app, did) ==
    [a \in DOMAIN tbl |->
        IF a = app THEN [tbl[a] EXCEPT !.active_deployment_id = did] ELSE tbl[a]]

\* get_app(app).and_then(|app| app.active_deployment_id)
get_active_deployment_id(tbl, app) ==
    IF app \in DOMAIN tbl THEN tbl[app].active_deployment_id ELSE NoId

\* UPDATE deployments SET status, with the WHERE clause lost.
update_deployment_status_every_row(tbl, id, status) ==
    [d \in DOMAIN tbl |-> [tbl[d] EXCEPT !.status = status]]

\* UPDATE deployments SET status WHERE id.
update_deployment_status(tbl, id, status) ==
    [d \in DOMAIN tbl |->
        IF d = id THEN [tbl[d] EXCEPT !.status = status] ELSE tbl[d]]

\* UPDATE deployments SET container_id, container_name, address, with the
\* WHERE clause lost.
set_deployment_container_every_row(tbl, id, cid, cname, address) ==
    [d \in DOMAIN tbl |->
        [tbl[d] EXCEPT !.container_id = cid,
                       !.container_name = cname,
                       !.address = address]]
\* UPDATE deployments SET address WHERE id: the container columns left out.
set_deployment_container_address_only(tbl, id, cid, cname, address) ==
    [d \in DOMAIN tbl |->
        IF d = id THEN [tbl[d] EXCEPT !.address = address] ELSE tbl[d]]
\* UPDATE deployments SET container_id, container_name, address WHERE id.
set_deployment_container(tbl, id, cid, cname, address) ==
    [d \in DOMAIN tbl |->
        IF d = id
        THEN [tbl[d] EXCEPT !.container_id = cid,
                            !.container_name = cname,
                            !.address = address]
        ELSE tbl[d]]

\* ------------------------------------------- timestamp columns (db.rs)
\* created_at and updated_at of the rows of a table, by primary key, in
\* seconds (CURRENT_TIMESTAMP has second resolution).
Stamp(created_at, updated_at) ==
    [created_at |-> created_at, updated_at |-> updated_at]

\* created_at, updated_at DATETIME NOT NULL DEFAULT CURRENT_TIMESTAMP: an
\* INSERT of a new row stamps both; none is added when the row exists.
inserted_at(times, id, now) ==
    IF id \in DOMAIN times THEN times ELSE times @@ (id :> Stamp(now, now))

\* SET updated_at = CURRENT_TIMESTAMP, with the WHERE clause lost.
touched_at_every_row(times, id, now) ==
    [k \in DOMAIN times |-> [times[k] EXCEPT !.updated_at = now]]

\* SET .., updated_at = CURRENT_TIMESTAMP WHERE id
touched_at(times, id, now) ==
    [k \in DOMAIN times |->
        IF k = id THEN [times[k] EXCEPT !.updated_at = now] ELSE times[k]]

\* ORDER BY created_at ASC.
sorts_before_oldest_first(a, b) == a.created_at <= b.created_at

\* ORDER BY created_at DESC: row a may come before row b.
sorts_before(a, b) == a.created_at >= b.created_at

\* Option<T>.
None == [some |-> FALSE, value |-> 0]
Some(v) == [some |-> TRUE, value |-> v]

\* WHERE status = ?1, when a status is given.
selected(tbl, status) ==
    {id \in DOMAIN tbl : status = "any" \/ tbl[id] = status}

\* The orders in which SELECT .. ORDER BY created_at DESC may return the
\* selected rows: rows of one created_at come in any order.
ordered(ids, times) ==
    {s \in [1..Cardinality(ids) -> ids] :
        /\ \A i, j \in DOMAIN s : i # j => s[i] # s[j]
        /\ \A i, j \in DOMAIN s :
               i < j => sorts_before(times[s[i]], times[s[j]])}

\* LIMIT {limit}: the first limit rows; SQLite puts no upper bound on the
\* rows when the limit is negative.
limited(rows, limit) ==
    IF limit.some /\ limit.value >= 0
    THEN SubSeq(rows, 1, IF limit.value < Len(rows) THEN limit.value
                         ELSE Len(rows))
    ELSE rows

\* list_builds(limit, status): the lists the query may return.
list_builds(tbl, times, limit, status) ==
    {limited(s, limit) : s \in ordered(selected(tbl, status), times)}
\* ------------------------------------------------- channels (tokio mpsc)
\* A try_send that reports Full one message late.
try_send_one_over(queue, closed, capacity) ==
    IF closed THEN "closed"
    ELSE IF Len(queue) > capacity THEN "full"
    ELSE "ok"

\* Sender::try_send: Closed takes precedence over Full.
try_send(queue, closed, capacity) ==
    IF closed THEN "closed"
    ELSE IF Len(queue) >= capacity THEN "full"
    ELSE "ok"

\* A receive that yields the newest buffered message.
recv_index_newest(queue) == Len(queue)

\* Receiver::recv yields the oldest buffered message.
recv_index(queue) == 1

\* A receive that yields None as soon as the channel is closed, buffered
\* messages or not.
recv_none_on_close(queue, closed) == closed
\* Receiver::recv yields None once the channel is closed and drained.
recv_none(queue, closed) == closed /\ queue = <<>>

RemoveAt(queue, i) ==
    [j \in 1..(Len(queue) - 1) |-> IF j < i THEN queue[j] ELSE queue[j + 1]]

\* ---------------------------------------------------------------- state
VARIABLES
    nextBuildId,      \* number of the next Uuid::new_v4() of create_build
    responses,        \* HTTP response of each POST /builds request
    archives,         \* build ids whose archive save_archive has written
    pendingInsert,    \* requests between try_send and db.create_build
    builds,           \* table builds: id -> status
    deployments,      \* table deployments: id -> row
    apps,             \* table apps: name -> row
    buildQueue,       \* build channel buffer
    deployQueue,      \* deploy channel buffer
    buildClosed,      \* build channel closed
    deployClosed,     \* deploy channel closed
    bw,               \* build worker: position, job in hand, locals
    dw,               \* deploy worker: position, job in hand, locals
    containers,       \* engine: names of the containers that exist
    nextDeployId,     \* number of the next deploy id the build worker draws
    hist,             \* observation: enqueue/dequeue/finish order, results
    call              \* a function applied on its own: name, arguments, result

vars == <<nextBuildId, responses, archives, pendingInsert, builds,
          deployments, apps, buildQueue, deployQueue, buildClosed,
          deployClosed, bw, dw, containers, nextDeployId, hist, call>>

\* The variables of the running agent.
agent == <<nextBuildId, responses, archives, pendingInsert, builds,
           deployments, apps, buildQueue, deployQueue, buildClosed,
           deployClosed, bw, dw, containers, nextDeployId, hist>>

\* No function is applied on its own while the agent runs.
NoCall == [op |-> "none"]

BuildWorkerIdle == [pc |-> "recv", job |-> NoBuildJob]
DeployWorkerIdle == [pc |-> "recv", job |-> NoDeployJob]

\* Results of process_build / process_deploy other than Ok(()).
IsErr(res) == res # "ok"

HistInit ==
    [enqB |-> <<>>, deqB |-> <<>>, enqD |-> <<>>, deqD |-> <<>>,
     bres |-> <<>>, dres |-> <<>>, cleanup |-> <<>>]

\* The agent as main constructs it: empty store, empty channels, both
\* workers at their receive.
Constructed ==
    /\ nextBuildId = 1
    /\ responses = <<>>
    /\ archives = {}
    /\ pendingInsert = {}
    /\ builds = <<>>
    /\ deployments = <<>>
    /\ apps = <<>>
    /\ buildQueue = <<>>
    /\ deployQueue = <<>>
    /\ buildClosed = FALSE
    /\ deployClosed = FALSE
    /\ bw = BuildWorkerIdle
    /\ dw = DeployWorkerIdle
    /\ containers = {}
    /\ nextDeployId = 1
    /\ hist = HistInit

Init ==
    /\ Constructed
    /\ call = NoCall

\* ------------------------------------------------ observation helpers
Enqueued(h, field, id) == [h EXCEPT ![field] = Append(@, id)]

\* ------------------------------------------------- create_build (api.rs)
QueuedResponse == [status |-> 200, body |-> "queued"]
QueueFullResponse ==
    [status |-> 503, body |-> "build queue is full, please try again later"]
InternalErrorResponse == [status |-> 500, body |-> "internal server error"]

\* params.deploy.unwrap_or(true)
deploy_or_default(param) == IF param = "unset" THEN TRUE ELSE param = "true"

\* POST /builds requests made so far: answered or still in the handler.
RequestsMade == Cardinality(DOMAIN responses \cup pendingInsert)

\* Names cfg.app may turn out to be when the worker parses the nimble.yaml
\* of an archive: those already in the apps table and the first one not yet
\* there.
AppChoices(tbl) ==
    {AppNames[i] : i \in {j \in DOMAIN AppNames :
                            \A k \in 1..(j - 1) : AppNames[k] \in DOMAIN tbl}}

\* POST /builds up to and including build_queue.try_send: draw the build id,
\* save the archive, enqueue the job.
create_build_send ==
    /\ UNCHANGED call
    /\ RequestsMade < MaxBuilds
    /\ \E param \in {"unset", "true", "false"}, saved \in BOOLEAN :
        LET build_id == nextBuildId
            deploy == deploy_or_default(param)
            sent == try_send(buildQueue, buildClosed, BUILD_QUEUE_CAPACITY)
        IN  /\ nextBuildId' = build_id + 1
            /\ IF ~saved
               THEN /\ responses' = responses @@ (build_id :> InternalErrorResponse)
                    /\ UNCHANGED <<archives, buildQueue, pendingInsert, hist>>
               ELSE /\ archives' = archives \cup {build_id}
                    /\ IF sent = "ok"
                       THEN /\ buildQueue' = Append(buildQueue, BuildJob(build_id, deploy))
                            /\ pendingInsert' = pendingInsert \cup {build_id}
                            /\ hist' = Enqueued(hist, "enqB", build_id)
                            /\ UNCHANGED responses
                       ELSE /\ responses' = responses @@
                                (build_id :> IF sent = "full"
                                             THEN QueueFullResponse
                                             ELSE InternalErrorResponse)
                            /\ UNCHANGED <<buildQueue, pendingInsert, hist>>
    /\ UNCHANGED <<builds, deployments, apps, deployQueue, buildClosed,
                   deployClosed, bw, dw, containers, nextDeployId>>

\* POST /builds from db.create_build(build_id, Queued) to the response.
create_build_insert ==
    /\ UNCHANGED call
    /\ \E build_id \in pendingInsert, stored \in BOOLEAN :
        /\ pendingInsert' = pendingInsert \ {build_id}
        /\ IF stored /\ create_build_ok(builds, build_id)
           THEN /\ builds' = db_create_build(builds, build_id, "queued")
                /\ responses' = responses @@ (build_id :> QueuedResponse)
           ELSE /\ responses' = responses @@ (build_id :> InternalErrorResponse)
                /\ UNCHANGED builds
    /\ UNCHANGED <<nextBuildId, archives, deployments, apps, buildQueue,
                   deployQueue, buildClosed, deployClosed, bw, dw, containers,
                   nextDeployId, hist>>

\* ------------------------------------------------------------ shutdown
\* The build channel is closed.
CloseBuildQueue ==
    /\ UNCHANGED call
    /\ ~buildClosed
    /\ buildClosed' = TRUE
    /\ UNCHANGED <<nextBuildId, responses, archives, pendingInsert, builds,
                   deployments, apps, buildQueue, deployQueue, deployClosed,
                   bw, dw, containers, nextDeployId, hist>>

\* ------------------------------------------------ build worker (build.rs)
\* if let Err(e) = self.process_build(job).await { error!(...) }: the loop
\* goes back to recv whatever process_build returned.
build_run_next(res) == BuildWorkerIdle

\* process_build returned res for job.
BuildFinished(h, job, res) ==
    [h EXCEPT !.bres = @ @@ (job.build_id :> res)]

\* while let Some(job) = build_rx.recv().await
BuildRecv ==
    /\ UNCHANGED call
    /\ bw.pc = "recv"
    /\ buildQueue # <<>>
    /\ LET i == recv_index(buildQueue)
           job == buildQueue[i]
       IN  /\ buildQueue' = RemoveAt(buildQueue, i)
           /\ bw' = [bw EXCEPT !.pc = "start", !.job = job]
           /\ hist' = Enqueued(hist, "deqB", job.build_id)
    /\ UNCHANGED <<nextBuildId, responses, archives, pendingInsert, builds,
                   deployments, apps, deployQueue, buildClosed, deployClosed,
                   dw, containers, nextDeployId>>

\* recv returned None: "Build worker stopped (channel closed)".  The worker
\* is dropped with its task, and with it the sending side of the deploy
\* channel: the deploy channel closes.
BuildStop ==
    /\ UNCHANGED call
    /\ bw.pc = "recv"
    /\ recv_none(buildQueue, buildClosed)
    /\ bw' = [bw EXCEPT !.pc = "stopped"]
    /\ deployClosed' = TRUE
    /\ UNCHANGED <<nextBuildId, responses, archives, pendingInsert, builds,
                   deployments, apps, buildQueue, deployQueue, buildClosed,
                   dw, containers, nextDeployId, hist>>

\* update_build_status(id, Building)
BuildStart ==
    /\ UNCHANGED call
    /\ bw.pc = "start"
    /\ \E stored \in BOOLEAN :
        IF stored
        THEN /\ builds' = update_build_status(builds, bw.job.build_id, "building")
             /\ bw' = [bw EXCEPT !.pc = "work"]
             /\ UNCHANGED hist
        ELSE /\ bw' = build_run_next("store")
             /\ hist' = BuildFinished(hist, bw.job, "store")
             /\ UNCHANGED builds
    /\ UNCHANGED <<nextBuildId, responses, archives, pendingInsert,
                   deployments, apps, buildQueue, deployQueue, buildClosed,
                   deployClosed, dw, containers, nextDeployId>>

\* The steps of process_build that can fail, in the order they run.
BuildFailures == {"create_dir", "extract", "nimble_yaml", "config", "builder"}

\* The status write the outcome of the build steps calls for, and where the
\* worker goes from there.
BuildWorkEnds(outcome, stored) ==
    LET id == bw.job.build_id
        status == IF outcome = "ok" THEN "success" ELSE "failed"
        res == IF ~stored THEN "store"
               ELSE IF outcome = "ok" THEN "ok" ELSE "failed"
    IN  /\ builds' = IF stored THEN update_build_status(builds, id, status)
                     ELSE builds
        /\ IF res = "ok" /\ bw.job.deploy
           THEN /\ bw' = [bw EXCEPT !.pc = "deploy"]
                /\ UNCHANGED hist
           ELSE /\ bw' = build_run_next(res)
                /\ hist' = BuildFinished(hist, bw.job, res)

\* create_dir_all, extract_archive, nimble.yaml, NimbleConfig::from_file,
\* builder.build, then the status write the outcome calls for.
BuildWork ==
    /\ UNCHANGED call
    /\ bw.pc = "work"
    /\ \E outcome \in BuildFailures \cup {"ok"}, stored \in BOOLEAN :
        BuildWorkEnds(outcome, stored)
    /\ UNCHANGED <<nextBuildId, responses, archives, pendingInsert,
                   deployments, apps, buildQueue, deployQueue, buildClosed,
                   deployClosed, dw, containers, nextDeployId>>

\* --------------------------------------------- builders (builders/*.rs)
BuilderTypes == {"Dockerfile", "Go"}

\* select_builder(type)
select_builder(type) ==
    IF type = "Dockerfile" THEN "DockerBuilder" ELSE "GoBuilder"

\* The result of Builder::build, and whether `docker build` was run for it.
Built(ok, engine) == [ok |-> ok, engine |-> engine]

\* What `docker build` may do: not start, exit non-zero, exit zero.
DockerBuildOutcomes == {"exec_failed", "build_failed", "built"}

\* GoBuilder::build: bail!("unimplemented")
GoBuilder_build == Built(FALSE, FALSE)

\* DockerBuilder::build: no Dockerfile, no `docker build`.
DockerBuilder_build(has_dockerfile, docker) ==
    IF ~has_dockerfile THEN Built(FALSE, FALSE)
    ELSE Built(docker = "built", TRUE)

\* builder.build(&build_dir, &image_name, image_tag)
builder_build(builder, has_dockerfile, docker) ==
    IF builder = "GoBuilder" THEN GoBuilder_build
    ELSE DockerBuilder_build(has_dockerfile, docker)

\* process_build of an archive that extracts and whose nimble.yaml parses,
\* but which names the Go builder or carries no Dockerfile.
BuildUnbuildable ==
    /\ UNCHANGED call
    /\ bw.pc = "work"
    /\ \E type \in BuilderTypes, has_dockerfile \in BOOLEAN,
          docker \in DockerBuildOutcomes, stored \in BOOLEAN :
        /\ type = "Go" \/ ~has_dockerfile
        /\ LET built == builder_build(select_builder(type), has_dockerfile,
                                      docker)
           IN  BuildWorkEnds(IF built.ok THEN "ok" ELSE "builder", stored)
    /\ UNCHANGED <<nextBuildId, responses, archives, pendingInsert,
                   deployments, apps, buildQueue, deployQueue, buildClosed,
                   deployClosed, dw, containers, nextDeployId>>

\* upsert_app(cfg.app); previous = get_active_deployment_id(cfg.app);
\* create_deployment(deploy_id, build_id, cfg.app, image, Queued, None);
\* enqueue DeployJob{deploy_id, build_id, app, image, port, previous}.
BuildEnqueueDeploy ==
    /\ UNCHANGED call
    /\ bw.pc = "deploy"
    /\ \E app \in AppChoices(apps),
          failed \in {"none", "upsert_app", "get_active_deployment_id",
                      "create_deployment"} :
        LET id == bw.job.build_id
            deploy_id == nextDeployId
            withApp == upsert_app(apps, app)
            previous == get_active_deployment_id(withApp, app)
            created == failed = "none" /\ create_deployment_ok(deployments, deploy_id)
            sent == try_send(deployQueue, deployClosed, DEPLOY_QUEUE_CAPACITY)
            res == IF ~created THEN "store"
                   ELSE IF sent = "ok" THEN "ok" ELSE "send"
        IN  /\ apps' = IF failed = "upsert_app" THEN apps ELSE withApp
            /\ deployments' = IF created
                              THEN create_deployment(deployments, deploy_id,
                                       id, app, "queued", NoId)
                              ELSE deployments
            /\ nextDeployId' = IF created THEN deploy_id + 1 ELSE nextDeployId
            /\ deployQueue' = IF res = "ok"
                              THEN Append(deployQueue,
                                       DeployJob(deploy_id, id, app, previous))
                              ELSE deployQueue
            /\ hist' = LET h == BuildFinished(hist, bw.job, res)
                       IN  IF res = "ok" THEN Enqueued(h, "enqD", deploy_id) ELSE h
            /\ bw' = build_run_next(res)
    /\ UNCHANGED <<nextBuildId, responses, archives, pendingInsert, builds,
                   buildQueue, buildClosed, deployClosed, dw, containers>>

\* ---------------------------------------------- deploy worker (deploy.rs)
\* A loop that propagates the error of process_deploy with `?`.
deploy_run_next_propagate(res) ==
    IF IsErr(res) THEN [DeployWorkerIdle EXCEPT !.pc = "stopped"]
    ELSE DeployWorkerIdle

\* if let Err(e) = self.process_deploy(job).await { error!(...) }: the loop
\* goes back to recv whatever process_deploy returned.
deploy_run_next(res) == DeployWorkerIdle

\* process_deploy returned res for job.
DeployFinished(h, job, res) ==
    [h EXCEPT !.dres = @ @@ (job.deploy_id :> res)]

\* format!("nimble-deploy-{}", job.deploy_id)
container_name_of(deploy_id) == deploy_id

\* while let Some(job) = deploy_rx.recv().await
DeployRecv ==
    /\ UNCHANGED call
    /\ dw.pc = "recv"
    /\ deployQueue # <<>>
    /\ LET i == recv_index(deployQueue)
           job == deployQueue[i]
       IN  /\ deployQueue' = RemoveAt(deployQueue, i)
           /\ dw' = [dw EXCEPT !.pc = "start", !.job = job]
           /\ hist' = Enqueued(hist, "deqD", job.deploy_id)
    /\ UNCHANGED <<nextBuildId, responses, archives, pendingInsert, builds,
                   deployments, apps, buildQueue, buildClosed, deployClosed,
                   bw, containers, nextDeployId>>

\* recv returned None: "Deploy worker stopped (channel closed)".
DeployStop ==
    /\ UNCHANGED call
    /\ dw.pc = "recv"
    /\ recv_none(deployQueue, deployClosed)
    /\ dw' = [dw EXCEPT !.pc = "stopped"]
    /\ UNCHANGED <<nextBuildId, responses, archives, pendingInsert, builds,
                   deployments, apps, buildQueue, deployQueue, buildClosed,
                   deployClosed, bw, containers, nextDeployId, hist>>

\* update_deployment_status(job.deploy_id, Deploying)?
DeployStart ==
    /\ UNCHANGED call
    /\ dw.pc = "start"
    /\ \E stored \in BOOLEAN :
        IF stored
        THEN /\ deployments' = update_deployment_status(deployments,
                                   dw.job.deploy_id, "deploying")
             /\ dw' = [dw EXCEPT !.pc = "stop_previous"]
             /\ UNCHANGED hist
        ELSE /\ dw' = deploy_run_next("store")
             /\ hist' = DeployFinished(hist, dw.job, "store")
             /\ UNCHANGED deployments
    /\ UNCHANGED <<nextBuildId, responses, archives, pendingInsert, builds,
                   apps, buildQueue, deployQueue, buildClosed, deployClosed,
                   bw, containers, nextDeployId>>

\* record.container_name.clone().or(record.container_id.clone())
container_ref_of(record) ==
    IF record.container_name # NoId THEN record.container_name
    ELSE record.container_id

\* Outcomes of `docker rm -f <container_ref>` given the engine's containers.
RemoveOutcomes(ref, running) ==
    {"exec_failed", "other_error"} \cup
    (IF ref \in running THEN {"removed"} ELSE {"no_such_container"})

\* A docker rm that bails on every non-zero exit, "no such container" too.
rm_failed_any_error(outcome) ==
    outcome \in {"exec_failed", "other_error", "no_such_container"}

\* docker rm could not be executed (`?`), or exited non-zero with a stderr
\* that does not contain "no such container" (bail!).
rm_failed(outcome) == outcome \in {"exec_failed", "other_error"}

\* stop_previous_deployment(deploy_id): the result, the state it leaves, and
\* what it did: the outcome of get_deployment, of docker rm, of the write.
stop_previous_deployment(tbl, running, deploy_id, fetched, outcome, stored) ==
    LET left(ok, deps, conts, fetch, engine, wrote) ==
            [ok |-> ok, deployments |-> deps, containers |-> conts,
             fetch |-> fetch, engine |-> engine, wrote |-> wrote]
    IN  IF ~fetched
        THEN left(FALSE, tbl, running, "failed", "not_run", "not_attempted")
        ELSE IF deploy_id \notin DOMAIN tbl
        THEN left(TRUE, tbl, running, "missing", "not_run", "not_attempted")
        ELSE
            LET ref == container_ref_of(tbl[deploy_id])
                engine == IF ref = NoId THEN "not_run" ELSE outcome
                removed == IF engine = "removed" THEN running \ {ref}
                           ELSE running
            IN  IF rm_failed(engine)
                THEN left(FALSE, tbl, running, "found", engine, "not_attempted")
                ELSE IF ~stored
                THEN left(FALSE, tbl, removed, "found", engine, "failed")
                ELSE left(TRUE,
                          update_deployment_status(tbl, deploy_id, "stopped"),
                          removed, "found", engine, "ok")

\* A match that returns the error of stop_previous_deployment.
cleanup_next_fatal(ok) == IF ok THEN "run" ELSE "cleanup_failed"

\* match self.stop_previous_deployment(previous).await { Ok(()) => info!(..),
\* Err(err) => error!(..) }: both arms fall through to docker run.
cleanup_next(ok) == "run"

\* What stop_previous_deployment did for the job deploy_id.
Cleaned(h, deploy_id, previous, r) ==
    [h EXCEPT !.cleanup = @ @@ (deploy_id :>
        [previous |-> previous, ok |-> r.ok, fetch |-> r.fetch,
         engine |-> r.engine, wrote |-> r.wrote])]

\* if let Some(previous) = job.previous_active_deployment { ... }: the
\* outcome of stop_previous_deployment is logged either way.
DeployStopPrevious ==
    /\ UNCHANGED call
    /\ dw.pc = "stop_previous"
    /\ LET previous == dw.job.previous_active_deployment
       IN  IF previous = NoId
           THEN /\ dw' = [dw EXCEPT !.pc = "run"]
                /\ UNCHANGED <<deployments, containers, hist>>
           ELSE \E fetched \in BOOLEAN, stored \in BOOLEAN,
                   outcome \in RemoveOutcomes(
                       IF previous \in DOMAIN deployments
                       THEN container_ref_of(deployments[previous]) ELSE NoId,
                       containers) :
                LET r == stop_previous_deployment(deployments, containers,
                             previous, fetched, outcome, stored)
                IN  /\ deployments' = r.deployments
                    /\ containers' = r.containers
                    /\ hist' = Cleaned(hist, dw.job.deploy_id, previous, r)
                    /\ dw' = [dw EXCEPT !.pc = cleanup_next(r.ok)]
    /\ UNCHANGED <<nextBuildId, responses, archives, pendingInsert, builds,
                   apps, buildQueue, deployQueue, buildClosed, deployClosed,
                   bw, nextDeployId>>

\* Host port `docker port` printed for the app port, NoId for none.
HostPort == 1

\* lookup_host_port(&container_name, job.app_port)?: Some(port) or None.
lookup_host_port(outcome) == IF outcome = "mapped" THEN HostPort ELSE NoId

\* Outcomes of `docker run -d` followed, when it printed a container id, by
\* `docker port`.
RunOutcomes ==
    {<<"exec_failed", "none">>, <<"nonzero_exit", "none">>,
     <<"empty_id", "none">>} \cup
    {<<"started", port>> :
        port \in {"exec_failed", "nonzero_exit", "no_mapping", "mapped"}}

\* docker run -d -p 0:<app_port> --name <container_name> ... <image> and the
\* store write that follows it: update_deployment_status(Failed)? and bail!
\* on a non-zero exit or an empty container id; otherwise
\* lookup_host_port(..)?, address = host_port.map(..) and
\* set_deployment_container(deploy_id, container_id, container_name, address)?
DeployRun ==
    /\ UNCHANGED call
    /\ dw.pc = "run"
    /\ \E outcome \in RunOutcomes, stored \in BOOLEAN :
        LET id == dw.job.deploy_id
            name == container_name_of(id)
            container_id == name
            run == outcome[1]
            address == lookup_host_port(outcome[2])
            res == IF run = "exec_failed" THEN "run_exec_failed"
                   ELSE IF run \in {"nonzero_exit", "empty_id"}
                   THEN (IF stored THEN "run_failed" ELSE "store")
                   ELSE IF outcome[2] \in {"exec_failed", "nonzero_exit"}
                   THEN "port_failed"
                   ELSE IF stored THEN "ok" ELSE "store"
        IN  /\ containers' = IF run = "started" THEN containers \cup {name}
                             ELSE containers
            /\ deployments' =
                   IF res = "run_failed"
                   THEN update_deployment_status(deployments, id, "failed")
                   ELSE IF res = "ok"
                   THEN set_deployment_container(deployments, id,
                            container_id, name, address)
                   ELSE deployments
            /\ IF res = "ok"
               THEN /\ dw' = [dw EXCEPT !.pc = "mark_running"]
                    /\ UNCHANGED hist
               ELSE /\ dw' = deploy_run_next(res)
                    /\ hist' = DeployFinished(hist, dw.job, res)
    /\ UNCHANGED <<nextBuildId, responses, archives, pendingInsert, builds,
                   apps, buildQueue, deployQueue, buildClosed, deployClosed,
                   bw, nextDeployId>>

\* update_deployment_status(job.deploy_id, Running)?; Ok(())
DeployMarkRunning ==
    /\ UNCHANGED call
    /\ dw.pc = "mark_running"
    /\ \E stored \in BOOLEAN :
        /\ deployments' = IF stored
                          THEN update_deployment_status(deployments,
                                   dw.job.deploy_id, "running")
                          ELSE deployments
        /\ hist' = DeployFinished(hist, dw.job, IF stored THEN "ok" ELSE "store")
        /\ dw' = deploy_run_next(IF stored THEN "ok" ELSE "store")
    /\ UNCHANGED <<nextBuildId, responses, archives, pendingInsert, builds,
                   apps, buildQueue, deployQueue, buildClosed, deployClosed,
                   bw, containers, nextDeployId>>

\* ------------------------------------------------------- specification
Next ==
    \/ create_build_send
    \/ create_build_insert
    \/ CloseBuildQueue
    \/ BuildRecv
    \/ BuildStop
    \/ BuildStart
    \/ BuildWork
    \/ BuildEnqueueDeploy
    \/ DeployRecv
    \/ DeployStop
    \/ DeployStart
    \/ DeployStopPrevious
    \/ DeployRun
    \/ DeployMarkRunning

Spec == Init /\ [][Next]_vars

\* The tokio runtime keeps polling the spawned tasks and every engine, store
\* and file-system call returns: some step is taken as long as one is
\* possible.
SpecLive == Spec /\ WF_vars(Next)

\* --------------------------------------------- a build queue about to fill
\* The state after BUILD_QUEUE_CAPACITY - 1 or BUILD_QUEUE_CAPACITY
\* submissions with deploy=false were accepted and answered while the build
\* worker has not yet received any of them.
Backlog(n) == [i \in 1..n |-> BuildJob(i, FALSE)]

InitBacklog ==
    \E n \in {BUILD_QUEUE_CAPACITY - 1, BUILD_QUEUE_CAPACITY} :
        /\ call = NoCall
        /\ nextBuildId = n + 1
        /\ responses = <<>>
        /\ archives = 1..n
        /\ pendingInsert = {}
        /\ builds = [i \in 1..n |-> "queued"]
        /\ deployments = <<>>
        /\ apps = <<>>
        /\ buildQueue = Backlog(n)
        /\ deployQueue = <<>>
        /\ buildClosed = FALSE
        /\ deployClosed = FALSE
        /\ bw = BuildWorkerIdle
        /\ dw = DeployWorkerIdle
        /\ containers = {}
        /\ nextDeployId = 1
        /\ hist = [HistInit EXCEPT !.enqB = [i \in 1..n |-> i]]

\* Further submissions arrive while the build worker receives at most one
\* job and stays busy with it (the backlog is not drained).
NextBacklog ==
    \/ create_build_send
    \/ create_build_insert
    \/ CloseBuildQueue
    \/ BuildRecv

SpecBacklog == InitBacklog /\ [][NextBacklog]_vars

\* ------------------------------------------- archives no builder can build
\* Every archive submitted names the Go builder or lacks a Dockerfile.
NextUnbuildable ==
    \/ create_build_send
    \/ create_build_insert
    \/ BuildRecv
    \/ BuildStart
    \/ BuildUnbuildable

SpecUnbuildable == Init /\ [][NextUnbuildable]_vars

\* -------------------------------------------- shutdown with jobs waiting
\* Number of build jobs waiting in the build queue.
MaxQueued == 2

\* The state after up to MaxQueued submissions with deploy=true were
\* accepted and answered while the build worker has not yet received any of
\* them; the build channel is still open.
InitDrain ==
    \E n \in 0..MaxQueued :
        /\ call = NoCall
        /\ nextBuildId = n + 1
        /\ responses = [i \in 1..n |-> QueuedResponse]
        /\ archives = 1..n
        /\ pendingInsert = {}
        /\ builds = [i \in 1..n |-> "queued"]
        /\ deployments = <<>>
        /\ apps = <<>>
        /\ buildQueue = [i \in 1..n |-> BuildJob(i, TRUE)]
        /\ deployQueue = <<>>
        /\ buildClosed = FALSE
        /\ deployClosed = FALSE
        /\ bw = BuildWorkerIdle
        /\ dw = DeployWorkerIdle
        /\ containers = {}
        /\ nextDeployId = 1
        /\ hist = [HistInit EXCEPT !.enqB = [i \in 1..n |-> i]]

\* No further submission arrives: the channel is closed at some point and
\* the two workers run.
NextDrain ==
    \/ CloseBuildQueue
    \/ BuildRecv
    \/ BuildStop
    \/ BuildStart
    \/ BuildWork
    \/ BuildEnqueueDeploy
    \/ DeployRecv
    \/ DeployStop
    \/ DeployStart
    \/ DeployStopPrevious
    \/ DeployRun
    \/ DeployMarkRunning

\* Every call a worker makes returns, so a worker that can take a step
\* takes one.
SpecDrain == InitDrain /\ [][NextDrain]_vars /\ WF_vars(NextDrain)
\* ------------------------------------- deploy jobs that name a predecessor
\* Number of deploy jobs waiting in the deploy queue.
MaxRetireJobs == 2

\* The agent starts on a store in which app AppNames[1] has deployment 1 as
\* its active deployment (a deployment that was Running when the pointer was
\* written and is Running or Stopped since; its container may be gone).  One
\* to MaxRetireJobs further builds of the app have succeeded, and the build
\* worker has read the pointer, created their deployments and enqueued their
\* deploy jobs, each naming deployment 1 as previous_active_deployment.
InitRetire ==
    \E status \in {"running", "stopped"}, alive \in BOOLEAN,
       n \in 1..MaxRetireJobs :
        LET app == AppNames[1]
            ids == 2..(n + 1)
            all == 1..(n + 1)
        IN  /\ call = NoCall
            /\ nextBuildId = n + 2
            /\ responses = [i \in ids |-> QueuedResponse]
            /\ archives = ids
            /\ pendingInsert = {}
            /\ builds = [i \in all |-> "success"]
            /\ deployments =
                   [i \in all |->
                       IF i = 1
                       THEN DeploymentRecord(1, app, status,
                                container_name_of(1), container_name_of(1), NoId)
                       ELSE DeploymentRecord(i, app, "queued", NoId, NoId, NoId)]
            /\ apps = (app :> AppRecord(1))
            /\ buildQueue = <<>>
            /\ deployQueue = [i \in 1..n |-> DeployJob(i + 1, i + 1, app, 1)]
            /\ buildClosed = FALSE
            /\ deployClosed = FALSE
            /\ bw = BuildWorkerIdle
            /\ dw = DeployWorkerIdle
            /\ containers = IF alive THEN {container_name_of(1)} ELSE {}
            /\ nextDeployId = n + 2
            /\ hist = [HistInit EXCEPT
                          !.enqB = [i \in 1..n |-> i + 1],
                          !.deqB = [i \in 1..n |-> i + 1],
                          !.bres = [i \in ids |-> "ok"],
                          !.enqD = [i \in 1..n |-> i + 1]]

\* The deploy worker works through the waiting jobs.
NextRetire ==
    \/ DeployRecv
    \/ DeployStart
    \/ DeployStopPrevious
    \/ DeployRun
    \/ DeployMarkRunning

SpecRetire == InitRetire /\ [][NextRetire]_vars

\* ------------------------------------------- a second submission (rollover)
\* The state the agent is in after one POST /builds?deploy=true for app
\* AppNames[1] went through without error: build 1 is Success, deployment 1
\* is Running with its container and address recorded, the queues are empty
\* and both workers wait at their receive.
AfterFirstDeployment ==
    /\ call = NoCall
    /\ nextBuildId = 2
    /\ responses = (1 :> QueuedResponse)
    /\ archives = {1}
    /\ pendingInsert = {}
    /\ builds = (1 :> "success")
    /\ deployments =
           (1 :> DeploymentRecord(1, AppNames[1], "running",
                     container_name_of(1), container_name_of(1), HostPort))
    /\ apps = (AppNames[1] :> AppRecord(NoId))
    /\ buildQueue = <<>>
    /\ deployQueue = <<>>
    /\ buildClosed = FALSE
    /\ deployClosed = FALSE
    /\ bw = BuildWorkerIdle
    /\ dw = DeployWorkerIdle
    /\ containers = {container_name_of(1)}
    /\ nextDeployId = 2
    /\ hist = [HistInit EXCEPT !.enqB = <<1>>, !.deqB = <<1>>,
                               !.enqD = <<1>>, !.deqD = <<1>>,
                               !.bres = (1 :> "ok"), !.dres = (1 :> "ok")]

\* Further submissions are made only from that state on.
SpecRollover == AfterFirstDeployment /\ [][Next]_vars

\* ------------------------------------------ archive extraction (build.rs)
\* Longest archive entry path, in segments between '/'.
MaxPathLen == 3

\* Segments an entry path is made of: the empty segment (a leading,
\* doubled or trailing '/'), ".", "..", a plain name and a drive prefix.
Segments == {"", ".", "..", "src", "C:"}

\* Entry paths of an archive: sequences of up to MaxPathLen segments.
EntryPaths == UNION {[1..n -> Segments] : n \in 0..MaxPathLen}

Platforms == {"unix", "windows"}

\* The directory an archive is extracted to (build_dir).
ExtractTo == <<"builds", "1">>

Component(kind, name) == [kind |-> kind, name |-> name]

\* entry_path.components(): a leading '/' is RootDir, a leading "." is
\* CurDir, every ".." is ParentDir, a leading drive is Prefix where the
\* platform has drives (followed by RootDir when a '/' follows); other "."
\* and empty segments are dropped, anything else is a Normal name.
RECURSIVE components_from(_, _, _)
components_from(path, i, platform) ==
    IF i > Len(path) THEN <<>>
    ELSE LET seg == path[i]
             rest == components_from(path, i + 1, platform)
         IN  IF seg = ""
             THEN (IF i = 1 /\ Len(path) >= 2
                   THEN <<Component("RootDir", "/")>> ELSE <<>>) \o rest
             ELSE IF seg = "."
             THEN (IF i = 1 THEN <<Component("CurDir", ".")>> ELSE <<>>)
                      \o rest
             ELSE IF seg = ".."
             THEN <<Component("ParentDir", "..")>> \o rest
             ELSE IF seg = "C:" /\ platform = "windows" /\ i = 1
             THEN <<Component("Prefix", seg)>>
                      \o (IF Len(path) >= 2
                          THEN <<Component("RootDir", "/")>> ELSE <<>>)
                      \o rest
             ELSE <<Component("Normal", seg)>> \o rest

components(path, platform) == components_from(path, 1, platform)

\* A match whose catch-all arm takes RootDir and Prefix only, so that a
\* ParentDir component is pushed like a name.
bails_root_only(component) == component.kind \in {"RootDir", "Prefix"}

\* match component { Normal(c) => .., CurDir => {}, _ => bail!(..) }
bails(component) == component.kind \notin {"Normal", "CurDir"}

Sanitized(path) == [ok |-> TRUE, path |-> path]
SanitizeErr == [ok |-> FALSE, path |-> <<>>]

\* for component in entry_path.components() { ... }
RECURSIVE sanitize_from(_, _, _)
sanitize_from(comps, i, out) ==
    IF i > Len(comps) THEN Sanitized(out)
    ELSE IF bails(comps[i]) THEN SanitizeErr
    ELSE IF comps[i].kind = "CurDir" THEN sanitize_from(comps, i + 1, out)
    ELSE sanitize_from(comps, i + 1, Append(out, comps[i].name))

\* sanitize_tar_path(entry_path, base)
sanitize_tar_path(entry_path, base, platform) ==
    sanitize_from(components(entry_path, platform), 1, base)

\* const MAX_FILE_SIZE: u64 = 100 * 1024 * 1024
MAX_FILE_SIZE == 104857600

\* A limit that also turns away an entry of exactly MAX_FILE_SIZE bytes.
exceeds_max_size_inclusive(size) == size >= MAX_FILE_SIZE

\* if entry.size() > MAX_FILE_SIZE { bail!(..) }
exceeds_max_size(size) == size > MAX_FILE_SIZE

\* safe_path.parent()
parent(path) == SubSeq(path, 1, Len(path) - 1)

\* What an extraction has put on disk: the files unpacked, in order, and
\* the directories created for them.
Extracted(ok, unpacked, dirs) == [ok |-> ok, unpacked |-> unpacked, dirs |-> dirs]

\* for entry in archive.entries()? { .. }: an entry the decoder cannot read,
\* a path that does not sanitize, a directory that cannot be created, a
\* size above the limit and a failing unpack each end the loop with an
\* error; what earlier entries put on disk stays.
RECURSIVE extract_from(_, _, _, _, _)
extract_from(entries, i, extract_to, platform, acc) ==
    IF i > Len(entries) THEN Extracted(TRUE, acc.unpacked, acc.dirs)
    ELSE LET entry == entries[i]
             safe == sanitize_tar_path(entry.path, extract_to, platform)
             dirs == IF safe.path = <<>> THEN acc.dirs
                     ELSE acc.dirs \cup {parent(safe.path)}
         IN  IF entry.io = "corrupt" \/ ~safe.ok
             THEN Extracted(FALSE, acc.unpacked, acc.dirs)
             ELSE IF entry.io = "create_dir_failed"
             THEN Extracted(FALSE, acc.unpacked, acc.dirs)
             ELSE IF exceeds_max_size(entry.size)
             THEN Extracted(FALSE, acc.unpacked, dirs)
             ELSE IF entry.io = "unpack_failed"
             THEN Extracted(FALSE, acc.unpacked, dirs)
             ELSE extract_from(entries, i + 1, extract_to, platform,
                      Extracted(TRUE,
                          Append(acc.unpacked,
                                 [path |-> safe.path, size |-> entry.size]),
                          dirs))

\* extract_archive(archive_path, extract_to): an archive that cannot be
\* opened or decoded fails before any entry is looked at.
extract_archive(readable, entries, extract_to, platform) ==
    IF ~readable THEN Extracted(FALSE, <<>>, {})
    ELSE extract_from(entries, 1, extract_to, platform,
                      Extracted(TRUE, <<>>, {}))
\* ------------------------------------------------ nimble.yaml (config.rs)
\* Strings are sequences of characters.  The upper-case letters and their
\* lower-case counterparts.
UpperCase ==
    <<"A", "B", "C", "D", "E", "F", "G", "H", "I", "J", "K", "L", "M", "N",
      "O", "P", "Q", "R", "S", "T", "U", "V", "W", "X", "Y", "Z">>
LowerCase ==
    <<"a", "b", "c", "d", "e", "f", "g", "h", "i", "j", "k", "l", "m", "n",
      "o", "p", "q", "r", "s", "t", "u", "v", "w", "x", "y", "z">>

\* A lowering that leaves every character as it is.
to_lowercase_char_unchanged(c) == c

\* char::to_lowercase
to_lowercase_char(c) ==
    IF \E i \in DOMAIN UpperCase : UpperCase[i] = c
    THEN LowerCase[CHOOSE i \in DOMAIN UpperCase : UpperCase[i] = c]
    ELSE c

\* str::to_lowercase
to_lowercase(s) == [i \in DOMAIN s |-> to_lowercase_char(s[i])]

DockerfileToken == <<"d", "o", "c", "k", "e", "r", "f", "i", "l", "e">>
GoToken == <<"g", "o">>

ConfigOk(builder_type, app, port) ==
    [ok |-> TRUE, builder_type |-> builder_type, app |-> app, port |-> port]
ConfigErr(error, what) == [ok |-> FALSE, error |-> error, what |-> what]

\* BuilderType::from_str: match s.to_lowercase().as_str()
BuilderType_from_str(s) ==
    LET lower == to_lowercase(s)
    IN  IF lower = DockerfileToken THEN [ok |-> TRUE, value |-> "Dockerfile"]
        ELSE IF lower = GoToken THEN [ok |-> TRUE, value |-> "Go"]
        ELSE [ok |-> FALSE, value |-> s]

\* const fn default_app_port() -> u16 { 8080 }
default_app_port == 8080

\* A YAML value: a string, an integer, or nothing under that key.
Absent == [type |-> "absent", text |-> <<>>, number |-> 0]
YamlStr(s) == [type |-> "str", text |-> s, number |-> 0]
YamlInt(n) == [type |-> "int", text |-> <<>>, number |-> n]

\* Value::as_u64 followed by `as u16`: the low 16 bits of a non-negative
\* integer, nothing for any other value.
port_of(v) ==
    IF v.type = "int" /\ v.number >= 0 THEN v.number % 65536
    ELSE default_app_port

\* NimbleConfig::from_str: the document parses or not; raw.get(key) finds
\* nothing unless the document is a mapping that has the key.
NimbleConfig_from_str(doc) ==
    IF doc.kind = "malformed" THEN ConfigErr("ParseError", "yaml")
    ELSE LET get(key) == IF doc.kind = "mapping" THEN doc[key] ELSE Absent
             builder == get("builder")
             app == get("app")
         IN  IF builder.type # "str" THEN ConfigErr("MissingField", "builder")
             ELSE LET builder_type == BuilderType_from_str(builder.text)
                  IN  IF ~builder_type.ok
                      THEN ConfigErr("InvalidBuilder", builder.text)
                      ELSE IF app.type # "str"
                      THEN ConfigErr("MissingField", "app")
                      ELSE ConfigOk(builder_type.value, app.text,
                                    port_of(get("port")))
\* ------------------------------------ status tokens (build.rs, deploy.rs)
\* The variants of the two status enums, by name.
BuildVariants == {"Queued", "Building", "Success", "Failed"}
DeployVariants == {"Queued", "Deploying", "Running", "Failed", "Stopped"}

StatusOk(variant) == [ok |-> TRUE, value |-> variant]
StatusErr == [ok |-> FALSE, value |-> ""]

\* BuildStatus::as_str
BuildStatus_as_str(variant) ==
    CASE variant = "Queued" -> <<"q", "u", "e", "u", "e", "d">>
      [] variant = "Building" -> <<"b", "u", "i", "l", "d", "i", "n", "g">>
      [] variant = "Success" -> <<"s", "u", "c", "c", "e", "s", "s">>
      [] variant = "Failed" -> <<"f", "a", "i", "l", "e", "d">>

\* A from_str that matches s as it is written.
BuildStatus_from_str_exact(s) ==
    IF s = <<"q", "u", "e", "u", "e", "d">> THEN StatusOk("Queued")
    ELSE IF s = <<"b", "u", "i", "l", "d", "i", "n", "g">> THEN StatusOk("Building")
    ELSE IF s = <<"s", "u", "c", "c", "e", "s", "s">> THEN StatusOk("Success")
    ELSE IF s = <<"f", "a", "i", "l", "e", "d">> THEN StatusOk("Failed")
    ELSE StatusErr

\* BuildStatus::from_str: match s.to_lowercase().as_str()
BuildStatus_from_str(s) ==
    LET lower == to_lowercase(s)
    IN  IF lower = <<"q", "u", "e", "u", "e", "d">> THEN StatusOk("Queued")
        ELSE IF lower = <<"b", "u", "i", "l", "d", "i", "n", "g">> THEN StatusOk("Building")
        ELSE IF lower = <<"s", "u", "c", "c", "e", "s", "s">> THEN StatusOk("Success")
        ELSE IF lower = <<"f", "a", "i", "l", "e", "d">> THEN StatusOk("Failed")
        ELSE StatusErr

\* DeployStatus::as_str
DeployStatus_as_str(variant) ==
    CASE variant = "Queued" -> <<"q", "u", "e", "u", "e", "d">>
      [] variant = "Deploying" -> <<"d", "e", "p", "l", "o", "y", "i", "n", "g">>
      [] variant = "Running" -> <<"r", "u", "n", "n", "i", "n", "g">>
      [] variant = "Failed" -> <<"f", "a", "i", "l", "e", "d">>
      [] variant = "Stopped" -> <<"s", "t", "o", "p", "p", "e", "d">>

\* DeployStatus::from_str: match s.to_lowercase().as_str()
DeployStatus_from_str(s) ==
    LET lower == to_lowercase(s)
    IN  IF lower = <<"q", "u", "e", "u", "e", "d">> THEN StatusOk("Queued")
        ELSE IF lower = <<"d", "e", "p", "l", "o", "y", "i", "n", "g">> THEN StatusOk("Deploying")
        ELSE IF lower = <<"r", "u", "n", "n", "i", "n", "g">> THEN StatusOk("Running")
        ELSE IF lower = <<"f", "a", "i", "l", "e", "d">> THEN StatusOk("Failed")
        ELSE IF lower = <<"s", "t", "o", "p", "p", "e", "d">> THEN StatusOk("Stopped")
        ELSE StatusErr
\* ----------------------------------------- functions applied on their own
\* A call that has not been made yet, and the call once it returned.
Pending(op, args) == [op |-> op, args |-> args, done |-> FALSE, result |-> <<>>]
Returned(c, result) == [c EXCEPT !.done = TRUE, !.result = result]

\* Most entries of an archive.
MaxEntries == 2

\* Entries of an archive: a path inside or outside the workspace, a declared
\* size around the limit (entry.size() is a u64: the comparison cannot
\* overflow), and what reading and unpacking the entry runs into.
ArchiveEntries ==
    [path : {<<".", "src">>, <<"..", "src">>},
     size : {0, MAX_FILE_SIZE - 1, MAX_FILE_SIZE, MAX_FILE_SIZE + 1,
             2 * MAX_FILE_SIZE},
     io : {"ok", "corrupt", "create_dir_failed", "unpack_failed"}]

ExtractCalls ==
    {Pending("extract_archive",
             [readable |-> r, entries |-> es, extract_to |-> ExtractTo]) :
        r \in BOOLEAN,
        es \in UNION {[1..n -> ArchiveEntries] : n \in 0..MaxEntries}}

ExtractCall ==
    /\ call.op = "extract_archive" /\ ~call.done
    /\ call' = Returned(call, extract_archive(call.args.readable,
                                call.args.entries, call.args.extract_to,
                                "unix"))
    /\ UNCHANGED agent
\* Values of the builder key: spellings of the two builders in mixed case,
\* other strings, a number, or no such key.
BuilderValues ==
    {Absent, YamlInt(1), YamlStr(<<>>),
     YamlStr(<<"g", "o">>), YamlStr(<<"G", "o">>), YamlStr(<<"g", "O">>),
     YamlStr(<<"G", "O">>), YamlStr(<<"g", "o", " ">>), YamlStr(<<"g">>),
     YamlStr(<<"d", "o", "c", "k", "e", "r", "f", "i", "l", "e">>),
     YamlStr(<<"D", "o", "c", "k", "e", "r", "f", "i", "l", "e">>),
     YamlStr(<<"D", "O", "C", "K", "E", "R", "F", "I", "L", "E">>),
     YamlStr(<<"d", "o", "c", "k", "e", "r">>),
     YamlStr(<<"r", "u", "s", "t">>)}

AppValues == {Absent, YamlInt(1), YamlStr(<<>>), YamlStr(<<"w", "e", "b">>)}

PortValues == {Absent, YamlInt(0), YamlInt(80), YamlInt(8080), YamlInt(65535), YamlInt(65616),
               YamlInt(-1), YamlStr(<<"8", "0">>)}

\* nimble.yaml documents: text that is no YAML, a YAML scalar, a mapping.
Documents ==
    [kind : {"malformed", "scalar"}, builder : {Absent}, app : {Absent},
     port : {Absent}]
        \cup [kind : {"mapping"}, builder : BuilderValues, app : AppValues,
              port : PortValues]

ConfigCalls == {Pending("NimbleConfig::from_str", doc) : doc \in Documents}

ConfigCall ==
    /\ call.op = "NimbleConfig::from_str" /\ ~call.done
    /\ call' = Returned(call, NimbleConfig_from_str(call.args))
    /\ UNCHANGED agent
SanitizeCalls ==
    {Pending("sanitize_tar_path",
             [entry_path |-> p, base |-> ExtractTo, platform |-> os]) :
        p \in EntryPaths, os \in Platforms}

SanitizeCall ==
    /\ call.op = "sanitize_tar_path" /\ ~call.done
    /\ call' = Returned(call, sanitize_tar_path(call.args.entry_path,
                                call.args.base, call.args.platform))
    /\ UNCHANGED agent
\* str::to_uppercase on the letters above.
to_uppercase(s) ==
    [i \in DOMAIN s |->
        IF \E k \in DOMAIN LowerCase : LowerCase[k] = s[i]
        THEN UpperCase[CHOOSE k \in DOMAIN LowerCase : LowerCase[k] = s[i]]
        ELSE s[i]]

\* The tokens of both enums.
StatusTokens ==
    {BuildStatus_as_str(v) : v \in BuildVariants}
        \cup {DeployStatus_as_str(v) : v \in DeployVariants}

\* Strings a status is parsed from: each token in lower case, capitalised
\* and in upper case, cut short by a character, followed by a blank; and the
\* empty string.
StatusTexts ==
    {<<>>} \cup UNION {{t, to_uppercase(t),
                        [t EXCEPT ![1] = to_uppercase(<<t[1]>>)[1]],
                        SubSeq(t, 1, Len(t) - 1), Append(t, " ")} :
                          t \in StatusTokens}

StatusEnums == {"BuildStatus", "DeployStatus"}
VariantsOf(enum) ==
    IF enum = "BuildStatus" THEN BuildVariants ELSE DeployVariants
as_str(enum, variant) ==
    IF enum = "BuildStatus" THEN BuildStatus_as_str(variant)
    ELSE DeployStatus_as_str(variant)
from_str(enum, s) ==
    IF enum = "BuildStatus" THEN BuildStatus_from_str(s)
    ELSE DeployStatus_from_str(s)

StatusAsStrCalls ==
    UNION {{Pending("as_str", [enum |-> e, variant |-> v, text |-> <<>>]) :
               v \in VariantsOf(e)} : e \in StatusEnums}

\* status.as_str(), and the token parsed back.
StatusAsStrCall ==
    /\ call.op = "as_str" /\ ~call.done
    /\ LET token == as_str(call.args.enum, call.args.variant)
       IN  call' = Returned(call,
                       [token |-> token,
                        parsed |-> from_str(call.args.enum, token)])
    /\ UNCHANGED agent

StatusFromStrCalls ==
    {Pending("from_str", [enum |-> e, variant |-> "", text |-> s]) :
        e \in StatusEnums, s \in StatusTexts}

\* Status::from_str(s)
StatusFromStrCall ==
    /\ call.op = "from_str" /\ ~call.done
    /\ call' = Returned(call,
                   [token |-> <<>>,
                    parsed |-> from_str(call.args.enum, call.args.text)])
    /\ UNCHANGED agent
\* One of the functions is applied to one input.
InitCalls ==
    /\ Constructed
    /\ \/ call \in SanitizeCalls
       \/ call \in ExtractCalls
       \/ call \in ConfigCalls
       \/ call \in StatusAsStrCalls
       \/ call \in StatusFromStrCalls

NextCalls ==
    \/ SanitizeCall
    \/ ExtractCall
    \/ ConfigCall
    \/ StatusAsStrCall
    \/ StatusFromStrCall

SpecCalls == InitCalls /\ [][NextCalls]_vars
\* ------------------------------------------- store calls on their own
\* Most rows of a table.
MaxRows == 2

\* CURRENT_TIMESTAMP at the call, in seconds since the store was created.
Now == 2

\* Timestamps a row may carry at the call: created no later than updated,
\* updated no later than now.
Stamps ==
    {t \in [created_at : 1..Now, updated_at : 1..Now] :
        t.created_at <= t.updated_at}

\* A table with its timestamp columns: any rows out of `rows` under up to
\* MaxRows keys out of `keys`.
Tables(keys, rows) ==
    UNION {[rows : [ids -> rows], times : [ids -> Stamps]] :
              ids \in SUBSET keys}

BuildTables == Tables(1..MaxRows, BuildStatus)

\* Deployments of one app, each with the container fields its status goes
\* with.
DeploymentRows ==
    {DeploymentRecord(1, AppNames[1], status,
         IF status \in {"running", "stopped"} THEN 1 ELSE NoId,
         IF status \in {"running", "stopped"} THEN 1 ELSE NoId,
         IF status \in {"running", "stopped"} THEN HostPort ELSE NoId) :
        status \in DeployStatus}

DeploymentTables == Tables(1..MaxRows, DeploymentRows)

AppTables == Tables(Apps, {AppRecord(d) : d \in {NoId, 1}})

\* The store after a call: whether the call succeeded, the table and its
\* timestamps, and the rows a query returned.
Stored(ok, rows, times, list) ==
    [ok |-> ok, rows |-> rows, times |-> times, list |-> list]

UpsertAppCalls ==
    {Pending("upsert_app", [table |-> t, app |-> a]) :
        t \in AppTables, a \in Apps}

\* upsert_app(app)
UpsertAppCall ==
    /\ call.op = "upsert_app" /\ ~call.done
    /\ LET a == call.args
       IN  call' = Returned(call,
               Stored(TRUE, upsert_app(a.table.rows, a.app),
                      inserted_at(a.table.times, a.app, Now), <<>>))
    /\ UNCHANGED agent

UpdateBuildStatusCalls ==
    {Pending("update_build_status", [table |-> t, id |-> i, status |-> s]) :
        t \in BuildTables, i \in 1..MaxRows, s \in BuildStatus}

\* update_build_status(build_id, status)
UpdateBuildStatusCall ==
    /\ call.op = "update_build_status" /\ ~call.done
    /\ LET a == call.args
       IN  call' = Returned(call,
               Stored(TRUE, update_build_status(a.table.rows, a.id, a.status),
                      touched_at(a.table.times, a.id, Now), <<>>))
    /\ UNCHANGED agent

UpdateDeploymentStatusCalls ==
    {Pending("update_deployment_status",
             [table |-> t, id |-> i, status |-> s]) :
        t \in DeploymentTables, i \in 1..MaxRows, s \in DeployStatus}

\* update_deployment_status(deploy_id, status)
UpdateDeploymentStatusCall ==
    /\ call.op = "update_deployment_status" /\ ~call.done
    /\ LET a == call.args
       IN  call' = Returned(call,
               Stored(TRUE,
                      update_deployment_status(a.table.rows, a.id, a.status),
                      touched_at(a.table.times, a.id, Now), <<>>))
    /\ UNCHANGED agent

SetDeploymentContainerCalls ==
    {Pending("set_deployment_container",
             [table |-> t, id |-> i, address |-> a]) :
        t \in DeploymentTables, i \in 1..MaxRows, a \in {NoId, HostPort}}

\* set_deployment_container(deploy_id, container_id, container_name, address)
SetDeploymentContainerCall ==
    /\ call.op = "set_deployment_container" /\ ~call.done
    /\ LET a == call.args
       IN  call' = Returned(call,
               Stored(TRUE,
                      set_deployment_container(a.table.rows, a.id,
                          container_name_of(a.id), container_name_of(a.id),
                          a.address),
                      touched_at(a.table.times, a.id, Now), <<>>))
    /\ UNCHANGED agent

SetActiveDeploymentCalls ==
    {Pending("set_active_deployment",
             [table |-> t, app |-> a, deploy_id |-> d]) :
        t \in AppTables, a \in Apps, d \in {NoId} \cup 1..MaxRows}

\* set_active_deployment(app, deploy_id)
SetActiveDeploymentCall ==
    /\ call.op = "set_active_deployment" /\ ~call.done
    /\ LET a == call.args
       IN  call' = Returned(call,
               Stored(TRUE,
                      set_active_deployment(a.table.rows, a.app, a.deploy_id),
                      touched_at(a.table.times, a.app, Now), <<>>))
    /\ UNCHANGED agent

CreateBuildCalls ==
    {Pending("create_build", [table |-> t, id |-> i, status |-> s]) :
        t \in BuildTables, i \in 1..MaxRows, s \in BuildStatus}

\* create_build(build_id, status): the INSERT fails on an id that exists
\* and then changes nothing.
CreateBuildCall ==
    /\ call.op = "create_build" /\ ~call.done
    /\ LET a == call.args
       IN  call' = Returned(call,
               IF create_build_ok(a.table.rows, a.id)
               THEN Stored(TRUE, db_create_build(a.table.rows, a.id, a.status),
                           inserted_at(a.table.times, a.id, Now), <<>>)
               ELSE Stored(FALSE, a.table.rows, a.table.times, <<>>))
    /\ UNCHANGED agent

\* limit: Option<i64>.
Limits == {None} \cup {Some(n) : n \in -1..(MaxRows + 1)}

ListBuildsCalls ==
    {Pending("list_builds", [table |-> t, limit |-> l, status |-> s]) :
        t \in BuildTables, l \in Limits, s \in BuildStatus \cup {"any"}}

\* list_builds(limit, status)
ListBuildsCall ==
    /\ call.op = "list_builds" /\ ~call.done
    /\ LET a == call.args
       IN  \E list \in list_builds(a.table.rows, a.table.times, a.limit,
                                   a.status) :
               call' = Returned(call,
                           Stored(TRUE, a.table.rows, a.table.times, list))
    /\ UNCHANGED agent

\* One store call is made on one store.
InitStore ==
    /\ Constructed
    /\ \/ call \in UpsertAppCalls
       \/ call \in UpdateBuildStatusCalls
       \/ call \in UpdateDeploymentStatusCalls
       \/ call \in SetDeploymentContainerCalls
       \/ call \in SetActiveDeploymentCalls
       \/ call \in CreateBuildCalls
       \/ call \in ListBuildsCalls

NextStore ==
    \/ UpsertAppCall
    \/ UpdateBuildStatusCall
    \/ UpdateDeploymentStatusCall
    \/ SetDeploymentContainerCall
    \/ SetActiveDeploymentCall
    \/ CreateBuildCall
    \/ ListBuildsCall

SpecStore == InitStore /\ [][NextStore]_vars
\* ------------------------------------- nimble deploy --wait (cmd/deploy.rs)
\* Fields of the JSON object the agent writes for a build and for a
\* deployment (api.rs BuildResponse, DeploymentResponse).
AgentBuildFields == {"id", "status", "created_at", "updated_at"}

AgentDeploymentFields ==
    {"id", "build_id", "image", "status", "container_id", "container_name",
     "address", "created_at", "updated_at"}

\* Fields the CLI's structs declare without Option (cmd/types.rs).
BuildResponseRequired == {"id", "status", "created_at", "updated_at"}

DeploymentResponseRequired ==
    {"id", "build_id", "app", "image", "status", "created_at", "updated_at"}

\* response.json::<T>(): serde rejects an object that lacks a field T
\* declares without Option or default.
json_parses(fields, required) == required \subseteq fields

\* What one poll of the CLI got: whether the request went through, the
\* HTTP status, the status token of the record in the body ("empty" for an
\* empty list, "none" for no record) and the fields of its JSON object.
Answer(of, sent, status, body, fields) ==
    [of |-> of, sent |-> sent, status |-> status, body |-> body,
     fields |-> fields]

NotPolled == Answer("none", FALSE, 0, "none", {})

\* GET /builds/{id}: get_build, then 200 with the record, 404 or 500.
get_build_response(tbl, id, fetched) ==
    IF ~fetched THEN Answer("build", TRUE, 500, "none", {"error"})
    ELSE IF id \in DOMAIN tbl
    THEN Answer("build", TRUE, 200, tbl[id], AgentBuildFields)
    ELSE Answer("build", TRUE, 404, "none", {"error"})

\* GET /deployments?build_id=: list_deployments(build_id), most recent
\* first (deploy ids are issued in order of creation); the first record of
\* the list is what the CLI looks at.
list_deployments_response(tbl, build_id, fetched) ==
    LET ids == {d \in DOMAIN tbl : tbl[d].build_id = build_id}
        first == CHOOSE d \in ids : \A e \in ids : e <= d
    IN  IF ~fetched THEN Answer("deployments", TRUE, 500, "none", {"error"})
        ELSE IF ids = {}
        THEN Answer("deployments", TRUE, 200, "empty", {})
        ELSE Answer("deployments", TRUE, 200, tbl[first].status,
                    AgentDeploymentFields)

\* client.get(&url).send().await failed.
SendFailed(of) == Answer(of, FALSE, 0, "none", {})

\* match build.status.as_str() in wait_for_completion.
build_status_arm(status) ==
    IF status \in {"success", "succeeded"} THEN "deployment"
    ELSE IF status \in {"failed", "errored"} THEN "bail"
    ELSE "sleep"

\* match deployment.status.as_str() in wait_for_deployment.
deployment_status_arm(status) ==
    IF status = "running" THEN "return"
    ELSE IF status \in {"failed", "errored"} THEN "bail"
    ELSE "sleep"

\* One turn of the loop of wait_for_completion on the answer r.
wait_for_completion(r) ==
    IF ~r.sent THEN "bail"
    ELSE IF r.status = 200
    THEN (IF json_parses(r.fields, BuildResponseRequired)
          THEN build_status_arm(r.body) ELSE "bail")
    ELSE "bail"

\* One turn of the loop of wait_for_deployment on the answer r.
wait_for_deployment(r) ==
    IF ~r.sent THEN "bail"
    ELSE IF r.status = 200
    THEN (IF r.body = "empty" THEN "sleep"
          ELSE IF json_parses(r.fields, DeploymentResponseRequired)
          THEN deployment_status_arm(r.body) ELSE "bail")
    ELSE "bail"

\* The CLI process: the build it waits for, the loop it is in, how it
\* exited, the status it printed last and the answer to its last request.
Waiting(build_id, pc, exit, last_reported_status, observed) ==
    [op |-> "deploy --wait", build_id |-> build_id, pc |-> pc, exit |-> exit,
     last_reported_status |-> last_reported_status, observed |-> observed]

\* if last_reported_status.as_deref() != Some(status) { println!; = Some }
reported(last, r, parsed) ==
    IF r.sent /\ r.status = 200 /\ parsed /\ r.body # "empty"
    THEN Some(r.body) ELSE last

\* execute with --wait: the POST is answered; on a 2xx status the CLI goes
\* on to wait_for_completion, on any other it bails.
execute ==
    /\ call = NoCall
    /\ \E build_id \in DOMAIN responses :
        call' = IF responses[build_id].status = 200
                THEN Waiting(build_id, "wait_for_completion", "none", None,
                             NotPolled)
                ELSE Waiting(build_id, "execute", "error", None, NotPolled)
    /\ UNCHANGED agent

\* wait_for_completion: GET /builds/{build_id}, then return to
\* wait_for_deployment, bail, or sleep and poll again.
PollBuild ==
    /\ call.op = "deploy --wait"
    /\ call.pc = "wait_for_completion" /\ call.exit = "none"
    /\ \E sent \in BOOLEAN, fetched \in BOOLEAN :
        LET r == IF sent THEN get_build_response(builds, call.build_id, fetched)
                 ELSE SendFailed("build")
            arm == wait_for_completion(r)
            last == reported(call.last_reported_status, r,
                             json_parses(r.fields, BuildResponseRequired))
        IN  call' = [call EXCEPT
                        !.observed = r,
                        !.pc = IF arm = "deployment"
                               THEN "wait_for_deployment" ELSE @,
                        !.last_reported_status =
                               IF arm = "deployment" THEN None ELSE last,
                        !.exit = IF arm = "bail" THEN "error" ELSE @]
    /\ UNCHANGED agent

\* wait_for_deployment: GET /deployments?build_id=, then return Ok, bail, or
\* sleep and poll again.
PollDeployment ==
    /\ call.op = "deploy --wait"
    /\ call.pc = "wait_for_deployment" /\ call.exit = "none"
    /\ \E sent \in BOOLEAN, fetched \in BOOLEAN :
        LET r == IF sent
                 THEN list_deployments_response(deployments, call.build_id,
                                                fetched)
                 ELSE SendFailed("deployments")
            arm == wait_for_deployment(r)
        IN  call' = [call EXCEPT
                        !.observed = r,
                        !.last_reported_status =
                            reported(@, r, json_parses(r.fields,
                                               DeploymentResponseRequired)),
                        !.exit = IF arm = "return" THEN "ok"
                                 ELSE IF arm = "bail" THEN "error" ELSE @]
    /\ UNCHANGED agent

\* The one POST /builds the CLI makes.
Submit ==
    /\ nextBuildId = 1
    /\ create_build_send

\* The CLI against the running agent.
NextWait ==
    \/ Submit
    \/ create_build_insert
    \/ execute
    \/ PollBuild
    \/ PollDeployment
    \/ BuildRecv
    \/ BuildStart
    \/ BuildWork
    \/ BuildEnqueueDeploy
    \/ DeployRecv
    \/ DeployStart
    \/ DeployStopPrevious
    \/ DeployRun
    \/ DeployMarkRunning

SpecWait == Init /\ [][NextWait]_vars
\* ================================================================ claims
Range(seq) == {seq[i] : i \in DOMAIN seq}
IsPrefix(s, t) == Len(s) <= Len(t) /\ \A i \in DOMAIN s : s[i] = t[i]
Last(seq) == seq[Len(seq)]

\* Position of a build status on Queued -> Building -> (Success | Failed).
StatusRank(status) ==
    CASE status = "queued" -> 0
      [] status = "building" -> 1
      [] status \in {"success", "failed"} -> 2

C2_RunningHasSuccessfulBuild ==
    \A d \in DOMAIN deployments :
        deployments[d].status = "running"
            => /\ deployments[d].build_id \in DOMAIN builds
               /\ builds[deployments[d].build_id] = "success"

\* C3: In every observable state a Deployment's container_id is non-null
\* iff its status is Running or Stopped.
C3_ContainerIffRunningOrStopped ==
    \A d \in DOMAIN deployments :
        (deployments[d].container_id # NoId)
            <=> (deployments[d].status \in {"running", "stopped"})

\* C4: Promotion.  When process_deploy has returned Ok for deployment d of
\* app a and the worker has not picked up another job since, a's
\* active_deployment_id is d.
C4_PromotedAfterRunning ==
    (dw.pc = "recv" /\ hist.deqD # <<>> /\ hist.dres[Last(hist.deqD)] = "ok")
        => LET d == Last(hist.deqD)
           IN  get_active_deployment_id(apps, deployments[d].app) = d

\* C6: Queue full.  A POST /builds whose archive was saved and that finds the
\* open build queue holding BUILD_QUEUE_CAPACITY jobs is answered 503 "build
\* queue is full, please try again later", enqueues nothing and creates no
\* Build record, then or later; one that finds the queue closed is answered
\* with the internal error instead; one that finds an open queue holding
\* fewer jobs is enqueued.
C6_QueueFull ==
    /\ [][(nextBuildId' # nextBuildId /\ nextBuildId \in archives')
            => LET id == nextBuildId
                   rejected(response) ==
                       /\ id \in DOMAIN responses'
                       /\ responses'[id] = response
                       /\ buildQueue' = buildQueue
                       /\ builds' = builds
                       /\ pendingInsert' = pendingInsert
               IN  /\ (~buildClosed /\ Len(buildQueue) = BUILD_QUEUE_CAPACITY)
                          => rejected(QueueFullResponse)
                   /\ buildClosed => rejected(InternalErrorResponse)
                   /\ (~buildClosed /\ Len(buildQueue) < BUILD_QUEUE_CAPACITY)
                          => /\ Len(buildQueue') = Len(buildQueue) + 1
                             /\ Last(buildQueue').build_id = id]_vars
    /\ [](\A id \in DOMAIN responses :
             responses[id].status = 503
                 => /\ responses[id] = QueueFullResponse
                    /\ id \notin DOMAIN builds
                    /\ id \notin Range(hist.enqB))
    /\ [](Len(buildQueue) <= BUILD_QUEUE_CAPACITY)

\* C6 witness: with BUILD_QUEUE_CAPACITY jobs buffered one request was
\* answered 503, and after the queue was closed another one was answered 500
\* although its archive was saved.
C6_Witness ==
    /\ Len(buildQueue) = BUILD_QUEUE_CAPACITY
    /\ buildClosed
    /\ \E id \in DOMAIN responses : responses[id] = QueueFullResponse
    /\ \E id \in DOMAIN responses :
           responses[id] = InternalErrorResponse /\ id \in archives

\* C7: FIFO, single consumer.  For each queue the jobs dequeued so far are,
\* in order, the first jobs enqueued; the buffer holds the rest in order;
\* every dequeued job except the one in the worker's hand has been finished
\* (so a job is started only after the previous one has returned).
InHand(w, id) == IF w.pc \in {"recv", "stopped"} THEN {} ELSE {id}
Remaining(enq, deq) == SubSeq(enq, Len(deq) + 1, Len(enq))

C7_FifoSingleConsumer ==
    /\ IsPrefix(hist.deqB, hist.enqB)
    /\ [i \in DOMAIN buildQueue |-> buildQueue[i].build_id]
           = Remaining(hist.enqB, hist.deqB)
    /\ DOMAIN hist.bres = Range(hist.deqB) \ InHand(bw, bw.job.build_id)
    /\ InHand(bw, bw.job.build_id) \subseteq
           (IF hist.deqB = <<>> THEN {} ELSE {Last(hist.deqB)})
    /\ IsPrefix(hist.deqD, hist.enqD)
    /\ [i \in DOMAIN deployQueue |-> deployQueue[i].deploy_id]
           = Remaining(hist.enqD, hist.deqD)
    /\ DOMAIN hist.dres = Range(hist.deqD) \ InHand(dw, dw.job.deploy_id)
    /\ InHand(dw, dw.job.deploy_id) \subseteq
           (IF hist.deqD = <<>> THEN {} ELSE {Last(hist.deqD)})

\* C7 witness: two jobs went through each queue and all four are finished.
C7_Witness ==
    /\ Len(hist.deqB) = 2 /\ Cardinality(DOMAIN hist.bres) = 2
    /\ Len(hist.deqD) = 2 /\ Cardinality(DOMAIN hist.dres) = 2

\* C8: Per-app deploy ordering.  For deploy jobs A then B of one app,
\* enqueued in that order: B is started only after A has returned, and once
\* both have returned Ok (both reached Running) the app's
\* active_deployment_id is B.
C8_PointerEndsAtLaterJob ==
    \A i \in DOMAIN hist.enqD, j \in DOMAIN hist.enqD :
        LET A == hist.enqD[i]
            B == hist.enqD[j]
        IN  (i < j /\ deployments[A].app = deployments[B].app)
            => /\ (B \in Range(hist.deqD) => A \in DOMAIN hist.dres)
               /\ (/\ A \in DOMAIN hist.dres /\ hist.dres[A] = "ok"
                   /\ B \in DOMAIN hist.dres /\ hist.dres[B] = "ok"
                   /\ B = Last(hist.enqD))
                   => get_active_deployment_id(apps, deployments[B].app) = B

\* C9: Worker survival.  Whatever process_build or process_deploy returned
\* for a job (a store error on a status write included), the step that
\* finishes the job leaves the worker at its receive, ready for the next job;
\* a worker that has stopped found its channel closed and drained, so it
\* never stops while a job is buffered or the channel is open.
C9_WorkerSurvival ==
    /\ [][/\ \A b \in DOMAIN hist.bres' \ DOMAIN hist.bres : bw'.pc = "recv"
          /\ \A d \in DOMAIN hist.dres' \ DOMAIN hist.dres : dw'.pc = "recv"
          /\ bw'.pc = "stopped" => (bw.pc = "stopped" \/ bw.pc = "recv")
          /\ dw'.pc = "stopped" => (dw.pc = "stopped" \/ dw.pc = "recv")]_vars
    /\ [](bw.pc = "stopped" => recv_none(buildQueue, buildClosed))
    /\ [](dw.pc = "stopped" => recv_none(deployQueue, deployClosed))

\* C9 witness: the first build job failed and the worker went on to finish
\* the second one; its deploy job failed on a store error; both workers then
\* stopped on closed and drained channels.
C9_Witness ==
    /\ bw.pc = "stopped" /\ dw.pc = "stopped"
    /\ Len(hist.deqB) = 2
    /\ IsErr(hist.bres[hist.deqB[1]])
    /\ hist.bres[hist.deqB[2]] = "ok"
    /\ Len(hist.deqD) = 1
    /\ hist.dres[hist.deqD[1]] = "store"

\* C10: Build failure is recorded.  Once the worker has finished a job that
\* failed at a step of process_build (and every store call of the job went
\* through), the Build record of that job has status Failed.
C10_FailedBuildRecorded ==
    \A b \in DOMAIN hist.bres :
        hist.bres[b] = "failed" => (b \in DOMAIN builds /\ builds[b] = "failed")

\* C11: Deployment failure is recorded.  Once the worker has finished a
\* deploy job that returned an error raised by the engine (docker run could
\* not be executed, exited non-zero or printed no container id, docker port
\* failed) while every store call of the job went through, the Deployment
\* record of that job has status Failed.
C11_FailedDeploymentRecorded ==
    \A d \in DOMAIN hist.dres :
        hist.dres[d] \in {"run_exec_failed", "run_failed", "port_failed"}
            => deployments[d].status = "failed"

\* Status process_deploy leaves on the record of a job it took past the
\* Deploying write, as a function of what the job returned.
FinalStatus(res) ==
    CASE res = "ok" -> "running"
      [] res = "run_failed" -> "failed"
      [] OTHER -> "deploying"

\* C12: Predecessor cleanup is non-fatal.  The step in which
\* stop_previous_deployment returns, Ok or Err, leaves the worker about to
\* run the new container for the same job and leaves the new deployment's
\* record untouched; and the status of a finished job that went through the
\* cleanup depends only on what the rest of process_deploy returned, not on
\* how the cleanup ended.
C12_CleanupNonFatal ==
    /\ [][\A d \in DOMAIN hist.cleanup' \ DOMAIN hist.cleanup :
             /\ dw.job.deploy_id = d
             /\ dw' = [pc |-> "run", job |-> dw.job]
             /\ deployments'[d] = deployments[d]]_vars
    /\ [](\A d \in DOMAIN hist.cleanup \cap DOMAIN hist.dres :
             deployments[d].status = FinalStatus(hist.dres[d]))

\* C12 witness: the cleanup of a job failed and the job's deployment is
\* Running all the same.
C12_Witness ==
    \E d \in DOMAIN hist.cleanup \cap DOMAIN hist.dres :
        /\ ~hist.cleanup[d].ok
        /\ hist.dres[d] = "ok"
        /\ deployments[d].status = "running"

\* C13: Retiring a predecessor always ends with its record Stopped.  Once
\* stop_previous_deployment has run for a predecessor whose record exists,
\* and no store call of it failed, that record's status is Stopped, however
\* the container removal ended.
C13_RetiredIsStopped ==
    \A d \in DOMAIN hist.cleanup :
        LET c == hist.cleanup[d]
        IN  (c.fetch = "found" /\ c.wrote # "failed")
                => deployments[c.previous].status = "stopped"

\* C14: Predecessor already absent.  When docker rm reports "no such
\* container" (and the store write goes through), stop_previous_deployment
\* returns Ok and the predecessor's record is Stopped.
C14_AbsentContainerIsSuccess ==
    \A d \in DOMAIN hist.cleanup :
        LET c == hist.cleanup[d]
        IN  (c.engine = "no_such_container" /\ c.wrote # "failed")
                => /\ c.ok
                   /\ deployments[c.previous].status = "stopped"

\* C14 witness: the predecessor's container was already gone, the cleanup
\* returned Ok, the predecessor is Stopped and the new deployment is Running.
C14_Witness ==
    \E d \in DOMAIN hist.cleanup :
        /\ hist.cleanup[d].engine = "no_such_container"
        /\ hist.cleanup[d].ok
        /\ deployments[hist.cleanup[d].previous].status = "stopped"
        /\ deployments[d].status = "running"

\* C15: Build completion happens-before deploy enqueue.  Every Deployment
\* record and every queued DeployJob belongs to a build whose record exists
\* with status Success.
C15_DeployOnlyAfterSuccessWritten ==
    /\ \A d \in DOMAIN deployments :
           /\ deployments[d].build_id \in DOMAIN builds
           /\ builds[deployments[d].build_id] = "success"
    /\ \A i \in DOMAIN deployQueue :
           /\ deployQueue[i].build_id \in DOMAIN builds
           /\ builds[deployQueue[i].build_id] = "success"

\* Deployment records of build b.
DeploymentsOf(tbl, b) == {d \in DOMAIN tbl : tbl[d].build_id = b}

ContainersOf(app) ==
    {c \in containers : c \in DOMAIN deployments /\ deployments[c].app = app}

\* C17: Rollover.  The second submission is made after deployment 1 of the
\* app reached Running; once its deploy job (deployment 2, same app) has
\* returned Ok, and before the worker takes another job, deployment 1 is
\* Stopped, deployment 2 is Running, the app's active_deployment_id is 2 and
\* exactly one container carries the app's label.
C17_Rollover ==
    (/\ dw.pc = "recv"
     /\ hist.deqD = <<1, 2>>
     /\ 2 \in DOMAIN hist.dres /\ hist.dres[2] = "ok"
     /\ deployments[2].app = deployments[1].app)
        => /\ deployments[1].status = "stopped"
           /\ deployments[2].status = "running"
           /\ get_active_deployment_id(apps, deployments[2].app) = 2
           /\ Cardinality(ContainersOf(deployments[2].app)) = 1

\* Edges of the Deployment state machine.
DeployEdges ==
    {<<"queued", "deploying">>, <<"deploying", "running">>,
     <<"deploying", "failed">>, <<"running", "stopped">>}

C19_FinalStateReached ==
    /\ \A b \in 1..MaxBuilds :
           [](b \in DOMAIN builds
                 => <>(/\ b \in DOMAIN builds
                       /\ builds[b] \in {"success", "failed"}))
    /\ \A d \in 1..MaxBuilds :
           [](d \in DOMAIN deployments
                 => <>(/\ d \in DOMAIN deployments
                       /\ deployments[d].status
                              \in {"running", "failed", "stopped"}))

\* C20: Build record and enqueue are simultaneous.  When the worker has
\* dequeued a BuildJob and not yet written anything for it, the Build record
\* with that id exists with status Queued.
C20_RecordExistsAtDequeue ==
    bw.pc = "start"
        => /\ bw.job.build_id \in DOMAIN builds
           /\ builds[bw.job.build_id] = "queued"

C22_HappyPath ==
    \A b \in DOMAIN hist.bres :
        (/\ b \in DOMAIN responses /\ responses[b] = QueuedResponse
         /\ hist.bres[b] = "ok"
         /\ dw.pc = "recv" /\ hist.deqD # <<>>
         /\ Last(hist.deqD) \in DOMAIN hist.dres
         /\ hist.dres[Last(hist.deqD)] = "ok"
         /\ deployments[Last(hist.deqD)].build_id = b
         /\ deployments[Last(hist.deqD)].address # NoId)
            => LET d == Last(hist.deqD)
               IN  /\ builds[b] = "success"
                   /\ DeploymentsOf(deployments, b) = {d}
                   /\ deployments[d].status = "running"
                   /\ deployments[d].container_id # NoId
                   /\ get_active_deployment_id(apps, deployments[d].app) = d

PlainNames(path, platform) ==
    LET idx == {i \in DOMAIN path :
                   /\ path[i] \notin {"", ".", ".."}
                   /\ ~(path[i] = "C:" /\ platform = "windows" /\ i = 1)}
        RECURSIVE pick(_)
        pick(i) == IF i > Len(path) THEN <<>>
                   ELSE (IF i \in idx THEN <<path[i]>> ELSE <<>>) \o pick(i + 1)
    IN  pick(1)

\* An entry path that climbs (".." anywhere), is absolute (starts with '/')
\* or starts with a drive prefix.
Escapes(path, platform) ==
    \/ \E i \in DOMAIN path : path[i] = ".."
    \/ Len(path) >= 2 /\ path[1] = ""
    \/ path # <<>> /\ path[1] = "C:" /\ platform = "windows"

\* C24: Path sanitization.  sanitize_tar_path fails exactly on the entry
\* paths with a parent-directory, root or prefix component; otherwise it
\* returns base followed by the path's plain names in order, a path at or
\* below base with no ".." in it.  "../x" is rejected, "./x" gives base/x.
C24_SanitizeTarPath ==
    (call.op = "sanitize_tar_path" /\ call.done)
        => LET p == call.args.entry_path
               base == call.args.base
               os == call.args.platform
               r == call.result
           IN  /\ r.ok <=> ~Escapes(p, os)
               /\ r.ok => /\ r.path = base \o PlainNames(p, os)
                          /\ IsPrefix(base, r.path)
                          /\ ".." \notin Range(r.path)
               /\ (p # <<>> /\ p[1] = "..") => ~r.ok
               /\ (Len(p) = 2 /\ p[1] = "." /\ p[2] = "src")
                      => r = Sanitized(Append(base, "src"))

\* C24 witness: "./src/src" was accepted as base/src/src.
C24_Witness ==
    /\ call.op = "sanitize_tar_path" /\ call.done
    /\ call.args.entry_path = <<".", "src", "src">>
    /\ call.result = Sanitized(call.args.base \o <<"src", "src">>)

\* An entry the loop gets past when it reaches it.
EntryFine(entry) ==
    /\ entry.io = "ok"
    /\ ~Escapes(entry.path, "unix")
    /\ entry.size <= 104857600

\* C25: Size boundary.  No unpacked file is larger than 100 MiB
\* (104857600 bytes); an archive whose entries are otherwise fine and at
\* most 104857600 bytes each is extracted in full, an entry of exactly
\* 104857600 bytes included; and an extraction that reaches an entry of
\* 104857601 bytes or more fails with exactly the entries before it
\* unpacked.
C25_SizeBoundary ==
    (call.op = "extract_archive" /\ call.done)
        => LET es == call.args.entries
               r == call.result
           IN  /\ \A k \in DOMAIN r.unpacked : r.unpacked[k].size <= 104857600
               /\ (call.args.readable /\ \A i \in DOMAIN es : EntryFine(es[i]))
                      => /\ r.ok
                         /\ [k \in DOMAIN r.unpacked |-> r.unpacked[k].size]
                                = [i \in DOMAIN es |-> es[i].size]
               /\ \A i \in DOMAIN es :
                      (/\ call.args.readable
                       /\ \A j \in 1..(i - 1) : EntryFine(es[j])
                       /\ es[i].size >= 104857601)
                          => ~r.ok /\ Len(r.unpacked) = i - 1

\* C25 witness: an entry of exactly 104857600 bytes was unpacked and the
\* entry of 104857601 bytes after it ended the extraction with an error.
C25_Witness ==
    /\ call.op = "extract_archive" /\ call.done
    /\ Len(call.args.entries) = 2
    /\ call.args.entries[1].size = 104857600
    /\ call.args.entries[2].size = 104857601
    /\ call.args.entries[2].io = "ok"
    /\ call.args.entries[2].path = <<".", "src">>
    /\ ~call.result.ok
    /\ Len(call.result.unpacked) = 1
    /\ call.result.unpacked[1].size = 104857600

\* s spells word, each letter in either case.
Spells(s, word) ==
    /\ Len(s) = Len(word)
    /\ \A i \in DOMAIN s :
          \/ s[i] = word[i]
          \/ \E k \in DOMAIN LowerCase :
                 LowerCase[k] = word[i] /\ UpperCase[k] = s[i]

\* C30: Config parsing.  NimbleConfig::from_str succeeds exactly when the
\* document has a string `builder` that spells dockerfile or go in any mix
\* of cases and a string `app`; a document without `builder` fails with
\* MissingField(builder), one with another builder string with
\* InvalidBuilder, one with a known builder and no `app` with
\* MissingField(app); a parsed config without `port` has port 8080.
C30_ConfigParsing ==
    (call.op = "NimbleConfig::from_str" /\ call.done)
        => LET doc == call.args
               r == call.result
               known == \/ Spells(doc.builder.text, DockerfileToken)
                        \/ Spells(doc.builder.text, GoToken)
           IN  /\ r.ok <=> (/\ doc.builder.type = "str" /\ known
                            /\ doc.app.type = "str")
               /\ (doc.kind # "malformed" /\ doc.builder.type = "absent")
                      => r = ConfigErr("MissingField", "builder")
               /\ (doc.builder.type = "str" /\ ~known)
                      => r = ConfigErr("InvalidBuilder", doc.builder.text)
               /\ (doc.builder.type = "str" /\ known /\ doc.app.type = "absent")
                      => r = ConfigErr("MissingField", "app")
               /\ r.ok => /\ r.builder_type =
                                 (IF Spells(doc.builder.text, GoToken)
                                  THEN "Go" ELSE "Dockerfile")
                          /\ r.app = doc.app.text
                          /\ doc.port.type = "absent" => r.port = 8080

\* C30 witness: `builder: Dockerfile`, `app: web` and no port parsed to the
\* Dockerfile builder on port 8080.
C30_Witness ==
    /\ call.op = "NimbleConfig::from_str" /\ call.done
    /\ call.args.builder.text
           = <<"D", "o", "c", "k", "e", "r", "f", "i", "l", "e">>
    /\ call.args.port = Absent
    /\ call.result = ConfigOk("Dockerfile", <<"w", "e", "b">>, 8080)

\* C26: upsert_app is idempotent.  On a name that exists the apps table is
\* left as it was, the row's active_deployment_id included; on a new name a
\* row with no active deployment is added and the other rows stay; and a
\* second upsert_app of the name changes nothing any more.
C26_UpsertAppIdempotent ==
    (call.op = "upsert_app" /\ call.done)
        => LET before == call.args.table.rows
               app == call.args.app
               after == call.result.rows
           IN  /\ call.result.ok
               /\ app \in DOMAIN before => after = before
               /\ app \notin DOMAIN before
                      => /\ DOMAIN after = DOMAIN before \cup {app}
                         /\ after[app].active_deployment_id = NoId
                         /\ \A a \in DOMAIN before : after[a] = before[a]
               /\ upsert_app(after, app) = after

\* C26 witness: upsert_app of an app whose active deployment is 1 left the
\* pointer at 1.
C26_Witness ==
    /\ call.op = "upsert_app" /\ call.done
    /\ call.args.app \in DOMAIN call.args.table.rows
    /\ call.args.table.rows[call.args.app].active_deployment_id = 1
    /\ call.result.rows[call.args.app].active_deployment_id = 1

\* C27: A status update to the current status.  update_build_status and
\* update_deployment_status with the status the record already has leave
\* every field of every record as it was; of the timestamps only that
\* record's updated_at changes (to the current time).
C27_SameStatusIsNoOp ==
    (/\ call.op \in {"update_build_status", "update_deployment_status"}
     /\ call.done
     /\ call.args.id \in DOMAIN call.args.table.rows
     /\ call.args.status =
            (IF call.op = "update_build_status"
             THEN call.args.table.rows[call.args.id]
             ELSE call.args.table.rows[call.args.id].status))
        => LET before == call.args.table
               id == call.args.id
               r == call.result
           IN  /\ r.ok
               /\ r.rows = before.rows
               /\ DOMAIN r.times = DOMAIN before.times
               /\ \A k \in DOMAIN before.times \ {id} :
                      r.times[k] = before.times[k]
               /\ r.times[id].created_at = before.times[id].created_at
               /\ r.times[id].updated_at = Now

\* C27 witness: a Running deployment created and last updated at second 1
\* was set to Running again at second 2 next to a second record.
C27_Witness ==
    /\ call.op = "update_deployment_status" /\ call.done
    /\ call.args.status = "running"
    /\ DOMAIN call.args.table.rows = {1, 2}
    /\ call.args.id = 1
    /\ call.args.table.rows[1].status = "running"
    /\ call.args.table.times[1] = Stamp(1, 1)
    /\ call.result.times[1] = Stamp(1, Now)
    /\ call.result.rows = call.args.table.rows

\* C28: Duplicate build id.  create_build with an id that exists fails and
\* leaves the table, status and timestamps of the existing record included,
\* as it was; with a new id it adds the record with the given status,
\* created and updated now.
C28_DuplicateBuildIdFails ==
    (call.op = "create_build" /\ call.done)
        => LET before == call.args.table
               id == call.args.id
               r == call.result
           IN  /\ id \in DOMAIN before.rows
                      => /\ ~r.ok
                         /\ r.rows = before.rows
                         /\ r.times = before.times
               /\ id \notin DOMAIN before.rows
                      => /\ r.ok
                         /\ r.rows = before.rows @@ (id :> call.args.status)
                         /\ r.times = before.times @@ (id :> Stamp(Now, Now))

\* C28 witness: create_build(1, Queued) failed on a store whose build 1 is
\* Success, and the record is still Success.
C28_Witness ==
    /\ call.op = "create_build" /\ call.done
    /\ call.args.id = 1 /\ call.args.status = "queued"
    /\ 1 \in DOMAIN call.args.table.rows
    /\ call.args.table.rows[1] = "success"
    /\ ~call.result.ok
    /\ call.result.rows[1] = "success"

\* What C29 says of a call of list_builds that returned `list`, with
\* `count` the number of records the limit lets through: the list holds
\* records that match the filter, none twice, newest created_at first, as
\* many as match up to `count`, no record left out being newer than one
\* returned; and the table is as it was.
ListedRight(a, r, count) ==
    LET matching == {id \in DOMAIN a.table.rows :
                        a.status = "any" \/ a.table.rows[id] = a.status}
        created(id) == a.table.times[id].created_at
        listed == {r.list[i] : i \in DOMAIN r.list}
    IN  /\ r.ok
        /\ listed \subseteq matching
        /\ Cardinality(listed) = Len(r.list)
        /\ \A i, j \in DOMAIN r.list :
               i < j => created(r.list[i]) >= created(r.list[j])
        /\ Len(r.list) = (IF count < Cardinality(matching)
                          THEN count ELSE Cardinality(matching))
        /\ \A x \in matching \ listed, y \in listed : created(x) <= created(y)
        /\ r.rows = a.table.rows /\ r.times = a.table.times

\* C29: list_builds.  With no limit or a negative one every matching record
\* is returned, with a limit of n >= 0 the first n of them, in descending
\* order of created_at; no record is changed.
C29_ListBuilds ==
    (call.op = "list_builds" /\ call.done)
        => LET limit == call.args.limit
           IN  ListedRight(call.args, call.result,
                   IF limit.some /\ limit.value >= 0 THEN limit.value
                   ELSE MaxRows)

\* C29 as stated: whenever a limit is given the list is truncated to its
\* first `limit` records, so a limit below one lets no record through.
C29_TruncatedToLimit ==
    (call.op = "list_builds" /\ call.done)
        => LET limit == call.args.limit
           IN  ListedRight(call.args, call.result,
                   IF ~limit.some THEN MaxRows
                   ELSE IF limit.value >= 0 THEN limit.value ELSE 0)

\* C29 witness: of two Success builds created at seconds 1 and 2 and
\* listed with status=success and limit 1, the one created at second 2 was
\* returned.
C29_Witness ==
    /\ call.op = "list_builds" /\ call.done
    /\ call.args.status = "success" /\ call.args.limit = Some(1)
    /\ DOMAIN call.args.table.rows = {1, 2}
    /\ call.args.table.rows[1] = "success"
    /\ call.args.table.rows[2] = "success"
    /\ call.args.table.times[1].created_at = 2
    /\ call.args.table.times[2].created_at = 1
    /\ call.result.list = <<1>>

\* C31: Port range.  The port of a parsed config is in 1..65535 and is the
\* integer written under `port`, or 8080 when the document has no `port`; a
\* document whose port is above 65535 does not parse to a config.
C31_PortAsWritten ==
    (call.op = "NimbleConfig::from_str" /\ call.done /\ call.result.ok)
        => LET written == call.args.port
               port == call.result.port
           IN  /\ port \in 1..65535
               /\ written.type = "absent" => port = 8080
               /\ written.type = "int" => port = written.number

\* The name of a status variant as it is written in the enum.
VariantSpelling(variant) ==
    CASE variant = "Queued" -> <<"Q", "u", "e", "u", "e", "d">>
      [] variant = "Building" -> <<"B", "u", "i", "l", "d", "i", "n", "g">>
      [] variant = "Success" -> <<"S", "u", "c", "c", "e", "s", "s">>
      [] variant = "Failed" -> <<"F", "a", "i", "l", "e", "d">>
      [] variant = "Deploying" -> <<"D", "e", "p", "l", "o", "y", "i", "n", "g">>
      [] variant = "Running" -> <<"R", "u", "n", "n", "i", "n", "g">>
      [] variant = "Stopped" -> <<"S", "t", "o", "p", "p", "e", "d">>

\* C32: Status tokens round-trip.  as_str of a variant spells the variant's
\* name in lower case and from_str gives the variant back; from_str accepts
\* a string exactly when it spells the name of a variant of that enum in any
\* mix of cases, and then returns that variant.
C32_StatusTokensRoundTrip ==
    /\ (call.op = "as_str" /\ call.done)
           => LET v == call.args.variant
                  name == VariantSpelling(v)
              IN  /\ Spells(name, call.result.token)
                  /\ \A i \in DOMAIN call.result.token :
                         \E k \in DOMAIN LowerCase :
                             LowerCase[k] = call.result.token[i]
                  /\ call.result.parsed = StatusOk(v)
    /\ (call.op = "from_str" /\ call.done)
           => LET s == call.args.text
                  r == call.result.parsed
                  named == {v \in VariantsOf(call.args.enum) :
                               /\ Len(s) = Len(VariantSpelling(v))
                               /\ \A i \in DOMAIN s :
                                      \/ Spells(<<s[i]>>, <<VariantSpelling(v)[i]>>)
                                      \/ Spells(<<VariantSpelling(v)[i]>>, <<s[i]>>)}
              IN  /\ r.ok <=> named # {}
                  /\ r.ok => r.value \in named

\* C32 witness: DeployStatus::from_str("STOPPED") gave Stopped.
C32_Witness ==
    /\ call.op = "from_str" /\ call.done
    /\ call.args.enum = "DeployStatus"
    /\ call.args.text = <<"S", "T", "O", "P", "P", "E", "D">>
    /\ call.result.parsed = StatusOk("Stopped")

\* C33: Builder selection.  Every submitted archive names the Go builder or
\* has no Dockerfile: no build returns Ok, no Deployment is created for it,
\* and once the request was answered 200 and the worker has finished the
\* job with every store call gone through, the Build is Failed.
C33_UnbuildableEndsFailed ==
    \A b \in DOMAIN hist.bres :
        /\ hist.bres[b] # "ok"
        /\ DeploymentsOf(deployments, b) = {}
        /\ (/\ hist.bres[b] = "failed"
            /\ b \in DOMAIN responses /\ responses[b] = QueuedResponse)
               => (b \in DOMAIN builds /\ builds[b] = "failed")

\* C34: set_deployment_container is applied at most once per deployment.
\* The container columns of a Deployment change only from unset to set,
\* while its status is Deploying and in a step that leaves the status alone
\* (so before Running is written); a Running Deployment has them set and a
\* Failed one never has.
ContainerWritten(d) ==
    <<deployments'[d].container_id, deployments'[d].container_name,
      deployments'[d].address>>
        # <<deployments[d].container_id, deployments[d].container_name,
            deployments[d].address>>

C34_ContainerSetOnce ==
    /\ [](\A d \in DOMAIN deployments :
            /\ deployments[d].status = "running"
                   => deployments[d].container_id # NoId
            /\ deployments[d].status = "failed"
                   => deployments[d].container_id = NoId)
    /\ [][\A d \in DOMAIN deployments :
            ContainerWritten(d) =>
                /\ deployments[d].container_id = NoId
                /\ deployments'[d].container_id # NoId
                /\ deployments[d].status = "deploying"
                /\ deployments'[d].status = "deploying"
                /\ dw.job.deploy_id = d]_vars

\* One deployment went Running with its container recorded, another Failed.
C34_Witness ==
    \E d, e \in DOMAIN deployments :
        /\ deployments[d].status = "running"
        /\ deployments[d].container_id # NoId
        /\ d \in DOMAIN hist.dres /\ hist.dres[d] = "ok"
        /\ deployments[e].status = "failed"
        /\ e \in DOMAIN hist.dres

C36_NoLeakedContainer ==
    \A d \in DOMAIN hist.dres :
        container_name_of(d) \in containers
            => /\ deployments[d].container_id # NoId
               /\ deployments[d].container_name # NoId

\* C37: Serial processing.  At most one Build is Building and at most one
\* Deployment is Deploying.
BuildingBuilds == {b \in DOMAIN builds : builds[b] = "building"}

DeployingDeployments ==
    {d \in DOMAIN deployments : deployments[d].status = "deploying"}

C37_SerialProcessing ==
    /\ Cardinality(BuildingBuilds) <= 1
    /\ Cardinality(DeployingDeployments) <= 1

\* C38: Updates addressed to nothing.  update_build_status,
\* update_deployment_status, set_deployment_container and
\* set_active_deployment, given an id or app that has no record, return
\* success and leave the table as it was: no record more, none changed.
UpdateOps ==
    {"update_build_status", "update_deployment_status",
     "set_deployment_container", "set_active_deployment"}

Addressed(c) ==
    IF c.op = "set_active_deployment" THEN c.args.app ELSE c.args.id

C38_UpdateOfMissingIsNoOp ==
    (/\ call.op \in UpdateOps
     /\ call.done
     /\ Addressed(call) \notin DOMAIN call.args.table.rows)
        => /\ call.result.ok
           /\ call.result.rows = call.args.table.rows
           /\ call.result.times = call.args.table.times

\* set_active_deployment returned for an app without a record, on a table
\* that holds another app.
C38_Witness ==
    /\ call.op = "set_active_deployment"
    /\ call.done
    /\ call.args.app \notin DOMAIN call.args.table.rows
    /\ call.args.table.rows # <<>>
    /\ call.args.deploy_id # NoId
    /\ call.result.ok

\* C39: A Deployment with an address also has a container_id and a
\* container_name.
C39_AddressHasContainer ==
    \A d \in DOMAIN deployments :
        deployments[d].address # NoId
            => /\ deployments[d].container_id # NoId
               /\ deployments[d].container_name # NoId

\* A deployment whose address was written by the deploy worker.
C39_Witness ==
    \E d \in DOMAIN deployments :
        /\ deployments[d].address = HostPort
        /\ deployments[d].container_id = container_name_of(d)
        /\ d \in Range(hist.deqD)

\* C40: The deploy --wait loop.  The CLI exits with success only after it
\* saw the build's status success and its most recent deployment running;
\* it exits with an error when the build or the deployment is failed or not
\* found; and on any other status (queued, building, deploying, stopped, no
\* deployment record yet) it has not exited but polls again.
KeepsPolling == {"queued", "building", "deploying", "stopped", "empty"}

C40_DeployWait ==
    (call.op = "deploy --wait" /\ call.observed.sent)
        => LET r == call.observed
           IN  /\ call.exit = "ok"
                      => /\ r.of = "deployments"
                         /\ r.status = 200 /\ r.body = "running"
                         /\ builds[call.build_id] = "success"
               /\ (r.status = 404 \/ (r.status = 200 /\ r.body = "failed"))
                      => call.exit = "error"
               /\ (r.status = 200 /\ r.body \in KeepsPolling)
                      => call.exit = "none"
====
